---- MODULE Spec2Model ----
(***************************************************************************)
(* Model of the Spaces reconciliation engine: SpacesService                *)
(* (js/background/spacesService.js), its session store (dbService.js) and  *)
(* the platform listeners that drive it (background.js).                   *)
(*                                                                         *)
(* JavaScript runs one macrotask at a time.  An action of this model is    *)
(* one macrotask: the code from the delivery of an event, timer or I/O     *)
(* response up to the point where every continuation it started is parked  *)
(* on real I/O (store, chrome API) or on the initialization promise.       *)
(* Store operations take effect when issued (IndexedDB orders its          *)
(* transactions by creation); their responses are delivered later.         *)
(***************************************************************************)
EXTENDS Integers, Sequences, FiniteSets, TLC

----------------------------------------------------------------------------
(* Bounds of the model *)

MaxEvents == 2      \* platform events (tab / window changes) in a run
MaxCalls == 1       \* user requests (save / delete / update) in a run
MaxTasks == 3       \* handlers in flight at once

----------------------------------------------------------------------------
(* Strings are sequences of UTF-16 code units *)

ExtId == <<107>>                          \* chrome.runtime.id, "k"
UrlA == <<97>>                            \* "a"
UrlB == <<98>>                            \* "b"
NoUrl == <<>>                             \* undefined / '' (both falsy)
NoName == <<>>                            \* name: false, a session never named
NameWork == <<119>>                       \* "w"
NameHome == <<104>>                       \* "h"
NameHomeCap == <<72>>                     \* "H"
NamePlay == <<112>>                       \* "p"
NoBounds == <<>>                          \* windowBounds: undefined

NewTabLit == <<99,104,114,111,109,101,58,47,47,32,110,101,119,116,97,98,47>>
SuspendedLit == <<115,117,115,112,101,110,100,101,100,46,104,116,109,108>>
UriLit == <<117,114,105,61>>
HashChar == <<35>>
QueryChar == <<63>>

\* String.prototype.indexOf: 0-based index of the first occurrence, or -1
IndexOf(s, pat) ==
    LET hits == {i \in 1..(Len(s) - Len(pat) + 1) :
                    SubSeq(s, i, i + Len(pat) - 1) = pat}
    IN IF Len(pat) > Len(s) THEN -1
       ELSE IF hits = {} THEN -1
       ELSE (CHOOSE i \in hits : \A j \in hits : i <= j) - 1

\* String.prototype.substring(from, to) with 0-based from, exclusive to
Substring(s, from, to) == SubSeq(s, from + 1, to)

\* cleanUrl's step for 'The Great Suspender': keep what follows 'uri='
Unsuspend(processedUrl) ==
    IF IndexOf(processedUrl, SuspendedLit) > 0 /\ IndexOf(processedUrl, UriLit) > 0
    THEN Substring(processedUrl, IndexOf(processedUrl, UriLit) + 4, Len(processedUrl))
    ELSE processedUrl

\* cleanUrl's steps for '#' and '?': remove any text after the symbol
CutAt(processedUrl, symbol) ==
    IF IndexOf(processedUrl, symbol) > 0
    THEN Substring(processedUrl, 0, IndexOf(processedUrl, symbol))
    ELSE processedUrl

cleanUrl(url) ==
    IF url = NoUrl THEN NoUrl
    ELSE IF IndexOf(url, ExtId) >= 0 THEN NoUrl
    ELSE IF IndexOf(url, NewTabLit) >= 0 THEN NoUrl
    ELSE CutAt(CutAt(Unsuspend(url), HashChar), QueryChar)

RECURSIVE ConcatUrls(_)
ConcatUrls(tabs) ==
    IF tabs = <<>> THEN <<>>
    ELSE cleanUrl(Head(tabs).url) \o ConcatUrls(Tail(tabs))

\* a hash step that adds hash to hash << 5 where the code subtracts it
HashStepPlus(h, chr) ==
    LET lo == 33 * h[2] + chr
        hi == 33 * h[1] + (lo \div 65536)
    IN <<hi % 65536, lo % 65536>>

\* One step of hash = ((hash << 5) - hash + chr) | 0 on a signed 32-bit
\* register held as two 16-bit halves <<hi, lo>>.
HashStep(h, chr) ==
    LET lo == 31 * h[2] + chr
        hi == 31 * h[1] + (lo \div 65536)
    IN <<hi % 65536, lo % 65536>>

RECURSIVE HashFold(_, _)
HashFold(h, text) ==
    IF text = <<>> THEN h
    ELSE HashFold(HashStep(h, Head(text)), Tail(text))

ToInt32(h) == IF h[1] >= 32768 THEN (h[1] - 65536) * 65536 + h[2]
              ELSE h[1] * 65536 + h[2]

Abs(x) == IF x < 0 THEN 0 - x ELSE x

\* generateSessionHash after text is built
HashText(text) ==
    IF Len(text) = 0 THEN 0
    ELSE Abs(ToInt32(HashFold(<<0, 0>>, text)))

generateSessionHash(tabs) == HashText(ConcatUrls(tabs))

filterInternalWindows(curWindow) ==
    \/ /\ Len(curWindow.tabs) = 1
       /\ IndexOf(curWindow.tabs[1].url, ExtId) >= 0
    \/ curWindow.type \in {"popup", "panel", "app"}

----------------------------------------------------------------------------
(* State *)

Windows == 1..2                 \* chrome window ids that can exist in a run
TabIds == 1..3                  \* chrome tab ids

VARIABLES
    sessions,               \* this.sessions: the registry (objects carry oid)
    store,                  \* rows of the ttSessions object store, by id
    nextId,                 \* the store's autoIncrement key generator
    tabHistoryUrlMap,       \* this.tabHistoryUrlMap
    closedWindowIds,        \* this.closedWindowIds
    sessionUpdateTimers,    \* this.sessionUpdateTimers: handle still pending?
    timers,                 \* platform timer table: pending callbacks per window
    historyQueue,           \* this.historyQueue
    initialized,            \* this.initialized
    initializationPromise,  \* this.initializationPromise is set
    tasks,                  \* async functions parked on I/O or on the promise
    result,                 \* value the last completed public call returned
    wins,                   \* the platform's windows
    evBudget,               \* platform events still allowed
    callBudget              \* user requests still allowed

vars == <<sessions, store, nextId, tabHistoryUrlMap, closedWindowIds,
          sessionUpdateTimers, timers, historyQueue, initialized,
          initializationPromise, tasks, result, wins, evBudget,
          callBudget>>

\* The engine's own state as one record, threaded through a macrotask
Engine ==
    [sessions |-> sessions, store |-> store, nextId |-> nextId,
     tabHistoryUrlMap |-> tabHistoryUrlMap, closedWindowIds |-> closedWindowIds,
     sessionUpdateTimers |-> sessionUpdateTimers, timers |-> timers,
     historyQueue |-> historyQueue, initialized |-> initialized,
     initializationPromise |-> initializationPromise, tasks |-> tasks,
     result |-> result,
     storeFails |-> FALSE]  \* the store rejects the updates of this macrotask

Commit(st) ==
    /\ sessions' = st.sessions
    /\ store' = st.store
    /\ nextId' = st.nextId
    /\ tabHistoryUrlMap' = st.tabHistoryUrlMap
    /\ closedWindowIds' = st.closedWindowIds
    /\ sessionUpdateTimers' = st.sessionUpdateTimers
    /\ timers' = st.timers
    /\ historyQueue' = st.historyQueue
    /\ initialized' = st.initialized
    /\ initializationPromise' = st.initializationPromise
    /\ tasks' = st.tasks
    /\ result' = st.result

NoResult == [op |-> "none", w |-> 0, val |-> <<>>]

\* A task: an async function parked at an await.  fn is the label the call
\* entered at, pc is where it resumes, ret the labels its callers resume at,
\* the rest are its locals.
NewTask(pc) ==
    [fn |-> pc, pc |-> pc, wait |-> "run", ret |-> <<>>, w |-> 0, cw |-> <<>>,
     s |-> <<>>, u |-> <<>>, rows |-> <<>>, i |-> 0, q |-> <<>>, mark |-> FALSE,
     via |-> FALSE, name |-> NoName, tabs |-> <<>>, id |-> 0, tabId |-> 0,
     url |-> NoUrl, complete |-> FALSE, flag |-> FALSE, r |-> <<>>]

\* r is what the call just awaited returned (<<>> for null); it is read, if
\* at all, before the next await
Park(st, t, wait, pc) ==
    [st EXCEPT !.tasks = Append(@, [t EXCEPT !.wait = wait, !.pc = pc, !.r = <<>>])]

RemoveAt(seq, i) == SubSeq(seq, 1, i - 1) \o SubSeq(seq, i + 1, Len(seq))

----------------------------------------------------------------------------
(* Objects.  A registry entry is an object; oid is its identity.  A row    *)
(* read from the store is a fresh object private to its reader (oid 0).    *)

Row(sess) ==
    [id |-> sess.id, windowId |-> sess.windowId, sessionHash |-> sess.sessionHash,
     name |-> sess.name, tabs |-> sess.tabs, history |-> sess.history,
     windowBounds |-> sess.windowBounds]

Obj(row, oid) ==
    [oid |-> oid, id |-> row.id, windowId |-> row.windowId,
     sessionHash |-> row.sessionHash, name |-> row.name, tabs |-> row.tabs,
     history |-> row.history, windowBounds |-> row.windowBounds]

UsedOids(st) ==
    {st.sessions[i].oid : i \in 1..Len(st.sessions)} \cup
    {st.tasks[i].s[1].oid : i \in {j \in 1..Len(st.tasks) : st.tasks[j].s # <<>>}} \cup
    {st.tasks[i].u[1].oid : i \in {j \in 1..Len(st.tasks) : st.tasks[j].u # <<>>}}

\* the n-th object identity not in use
RECURSIVE FreshOid(_, _)
FreshOid(used, n) ==
    LET o == CHOOSE k \in 1..(Cardinality(used) + 1) : k \notin used
    IN IF n <= 1 THEN o ELSE FreshOid(used \cup {o}, n - 1)

IndexByOid(st, oid) ==
    LET hits == {i \in 1..Len(st.sessions) : st.sessions[i].oid = oid}
    IN IF oid = 0 \/ hits = {} THEN 0 ELSE CHOOSE i \in hits : TRUE

\* Array.prototype.find / findIndex on this.sessions: first index or 0
FindIndex(st, P(_)) ==
    LET hits == {i \in 1..Len(st.sessions) : P(st.sessions[i])}
    IN IF hits = {} THEN 0 ELSE CHOOSE i \in hits : \A j \in hits : i <= j

\* the object a local variable refers to, as it is now
Cur(st, loc) ==
    LET k == IndexByOid(st, loc[1].oid)
    IN IF k = 0 THEN loc[1] ELSE st.sessions[k]

\* assignment to fields of the object a local variable refers to
WriteObj(st, o) ==
    LET k == IndexByOid(st, o.oid)
    IN IF k = 0 THEN st ELSE [st EXCEPT !.sessions[k] = o]

\* an object leaves the registry: tasks that hold it keep it as it was
Holds(loc, o) == loc # <<>> /\ o.oid # 0 /\ loc[1].oid = o.oid

Detach(st, o) ==
    [st EXCEPT !.tasks =
        [i \in 1..Len(@) |->
            [@[i] EXCEPT !.s = IF Holds(@, o) THEN <<o>> ELSE @,
                         !.u = IF Holds(@, o) THEN <<o>> ELSE @]]]

Splice(st, k) ==
    LET st1 == Detach(st, st.sessions[k])
    IN [st1 EXCEPT !.sessions = RemoveAt(@, k)]

----------------------------------------------------------------------------
(* dbService: the session store.  Reads return fresh objects. *)

RowIndexById(rows, id) ==
    LET hits == {i \in 1..Len(rows) : rows[i].id = id}
    IN IF hits = {} THEN 0 ELSE CHOOSE i \in hits : TRUE

fetchAllSessions(st) == [i \in 1..Len(st.store) |-> Obj(st.store[i], 0)]

fetchSessionByWindowId(st, windowId) ==
    LET hits == {i \in 1..Len(st.store) : st.store[i].windowId = windowId}
    IN IF hits = {} THEN <<>>
       ELSE <<Obj(st.store[CHOOSE i \in hits : \A j \in hits : i <= j], 0)>>

fetchSessionById(st, id) ==
    LET k == RowIndexById(st.store, id)
    IN IF k = 0 THEN <<>> ELSE <<Obj(st.store[k], 0)>>

\* String.prototype.toLowerCase on the code units of a name
ToLowerCase(name) ==
    [i \in 1..Len(name) |-> IF name[i] \in 65..90 THEN name[i] + 32 ELSE name[i]]

\* the first row, in key order, whose name equals sessionName ignoring case
fetchSessionByName(st, sessionName) ==
    LET hits == {i \in 1..Len(st.store) :
                    ToLowerCase(st.store[i].name) = ToLowerCase(sessionName)}
    IN IF hits = {} THEN <<>>
       ELSE <<Obj(st.store[CHOOSE i \in hits : \A j \in hits : i <= j], 0)>>

\* objectStore.put: replace the row with this key, or insert it in key order
StorePut(rows, row) ==
    LET k == RowIndexById(rows, row.id)
        before == SelectSeq(rows, LAMBDA r : r.id < row.id)
        after == SelectSeq(rows, LAMBDA r : r.id > row.id)
    IN IF k # 0 THEN [rows EXCEPT ![k] = row] ELSE before \o <<row>> \o after

removeSession(st, id) ==
    [st EXCEPT !.store = SelectSeq(@, LAMBDA r : r.id # id)]

----------------------------------------------------------------------------
(* History of a session *)

HistoryLimit == 200

RemoveFirst(seq, P(_)) ==
    LET hits == {i \in 1..Len(seq) : P(seq[i])}
    IN IF hits = {} THEN seq
       ELSE RemoveAt(seq, CHOOSE i \in hits : \A j \in hits : i <= j)

\* a slice that keeps everything
SliceAll(seq, end) == seq

\* Array.prototype.slice(0, end)
Slice(seq, end) == SubSeq(seq, 1, IF Len(seq) < end THEN Len(seq) ELSE end)

\* addUrlToSessionHistory from the filter of session.tabs on
AddToHistory(session, cleanUrlResult, tabBeingRemoved) ==
    IF Len(tabBeingRemoved) # 1 THEN session
    ELSE [session EXCEPT !.history =
             Slice(tabBeingRemoved \o
                   RemoveFirst(@, LAMBDA historyTab :
                                      cleanUrl(historyTab.url) = cleanUrlResult),
                   HistoryLimit)]

\* addUrlToSessionHistory after const cleanUrlResult = cleanUrl(newUrl)
AddCleanedToHistory(session, cleanUrlResult) ==
    IF Len(cleanUrlResult) = 0 THEN session
    ELSE AddToHistory(session, cleanUrlResult,
             SelectSeq(session.tabs,
                       LAMBDA curTab : cleanUrl(curTab.url) = cleanUrlResult))

addUrlToSessionHistory(session, newUrl) ==
    AddCleanedToHistory(session, cleanUrl(newUrl))

\* removeUrlFromSessionHistory after newUrl = cleanUrl(newUrl)
RemoveCleanedFromHistory(session, newUrl) ==
    IF Len(newUrl) = 0 THEN session
    ELSE [session EXCEPT !.history =
             RemoveFirst(@, LAMBDA historyTab : cleanUrl(historyTab.url) = newUrl)]

\* removeUrlFromSessionHistory that compares with the url as it was passed
removeUrlFromSessionHistoryRaw(session, newUrl) ==
    RemoveCleanedFromHistory(session, newUrl)

removeUrlFromSessionHistory(session, newUrl) ==
    RemoveCleanedFromHistory(session, cleanUrl(newUrl))

\* handleWindowEvent's loop over the queue entries of one window: item i of
\* the filtered list is applied, then index i of the whole queue is spliced
RECURSIVE DrainHistory(_, _, _, _)
DrainHistory(session, queue, historyItems, i) ==
    IF i < 1 THEN [session |-> session, queue |-> queue]
    ELSE LET historyItem == historyItems[i]
             s2 == IF historyItem.action = "add"
                   THEN addUrlToSessionHistory(session, historyItem.url)
                   ELSE IF historyItem.action = "remove"
                   THEN removeUrlFromSessionHistory(session, historyItem.url)
                   ELSE session
             q2 == IF i <= Len(queue) THEN RemoveAt(queue, i) ELSE queue
         IN DrainHistory(s2, q2, historyItems, i - 1)

----------------------------------------------------------------------------
(* Timers *)

\* clearTimeout(handle): a handle that already fired or was cleared is ignored
ClearTimer(st, w) ==
    IF st.sessionUpdateTimers[w]
    THEN [st EXCEPT !.timers[w] = @ - 1, !.sessionUpdateTimers[w] = FALSE]
    ELSE st

\* queueWindowEvent that arms a timer and leaves the previous one pending
queueWindowEventKeep(st, w) ==
    [st EXCEPT !.timers[w] = @ + 1, !.sessionUpdateTimers[w] = TRUE]

queueWindowEvent(st, w) ==
    LET st1 == ClearTimer(st, w)
    IN [st1 EXCEPT !.timers[w] = @ + 1, !.sessionUpdateTimers[w] = TRUE]

\* The callback captureWindowBounds hands to setTimeout is a task that waits
\* for its timer and holds the session; this.boundsUpdateTimers[w] names the
\* one armed last.  clearTimeout(this.boundsUpdateTimers[w]):
ClearBoundsTimer(st, w) ==
    [st EXCEPT !.tasks = SelectSeq(@, LAMBDA x : ~(x.wait = "timer" /\ x.w = w))]

----------------------------------------------------------------------------
(* SpacesService.  Each operator runs the code of one function from a      *)
(* resume point to its next await on I/O and returns the engine state.     *)

\* spaceDateCompare with the dates the other way round
spaceDateCompareAscending(a, b) ==
    IF a.windowId # 0 /\ b.windowId = 0 THEN -1
    ELSE IF a.windowId = 0 /\ b.windowId # 0 THEN 1
    ELSE IF a.lastAccess < b.lastAccess THEN -1
    ELSE IF a.lastAccess > b.lastAccess THEN 1
    ELSE 0

\* background.js spaceDateCompare: open sessions first, then latest access first
spaceDateCompare(a, b) ==
    IF a.windowId # 0 /\ b.windowId = 0 THEN -1
    ELSE IF a.windowId = 0 /\ b.windowId # 0 THEN 1
    ELSE IF a.lastAccess > b.lastAccess THEN -1
    ELSE IF a.lastAccess < b.lastAccess THEN 1
    ELSE 0

\* Array.prototype.sort(spaceDateCompare): a stable sort, here by insertion
RECURSIVE SortInsert(_, _)
SortInsert(sorted, x) ==
    IF sorted = <<>> THEN <<x>>
    ELSE IF spaceDateCompare(sorted[Len(sorted)], x) > 0
    THEN Append(SortInsert(SubSeq(sorted, 1, Len(sorted) - 1), x), sorted[Len(sorted)])
    ELSE Append(sorted, x)

RECURSIVE SortSpaces(_)
SortSpaces(spaces) ==
    IF spaces = <<>> THEN <<>>
    ELSE SortInsert(SortSpaces(SubSeq(spaces, 1, Len(spaces) - 1)), spaces[Len(spaces)])

\* background.js requestAllSpaces from the answer of fetchAllSessions on
requestAllSpaces(rows) ==
    SortSpaces(SelectSeq([i \in 1..Len(rows) |-> [sessionId |-> rows[i].id] @@ rows[i]],
                         LAMBDA session : Len(session.tabs) > 0))

RECURSIVE Resume(_, _)

\* return from an awaited call: the caller goes on at the label it left
Return(st, t) ==
    IF t.ret = <<>> THEN st
    ELSE Resume(st, [t EXCEPT !.pc = Head(t.ret), !.ret = Tail(t.ret)])

\* the part of initialiseSpaces before its first await
initialiseSpaces(st, via) ==
    Park([st EXCEPT !.initialized = FALSE],
         [NewTask("init_version") EXCEPT !.via = via], "chrome", "init_version")

\* await this.ensureInitialized(); the caller goes on at t.pc
ensureInitialized(st, t) ==
    IF st.initialized THEN Resume(st, t)
    ELSE IF st.initializationPromise THEN Park(st, t, "init", t.pc)
    ELSE Park([initialiseSpaces(st, TRUE) EXCEPT !.initializationPromise = TRUE],
              t, "init", t.pc)

\* _updateSessionSync whose transaction fails: nothing is written
updateSessionSyncThrows(st, t, retpc) ==
    IF Cur(st, t.u).id = 0 THEN Resume(st, [t EXCEPT !.pc = retpc, !.r = <<>>])
    ELSE Park(st, [t EXCEPT !.ret = <<retpc>> \o @], "db", "uss_failed")

\* await this._updateSessionSync(t.u); the caller goes on at retpc
updateSessionSync(st, t, retpc) ==
    LET session == Cur(st, t.u)
    IN IF st.storeFails THEN updateSessionSyncThrows(st, t, retpc)
       ELSE IF session.id = 0 THEN Resume(st, [t EXCEPT !.pc = retpc, !.r = <<>>])
       ELSE Park([st EXCEPT !.store = StorePut(@, Row(session))],
                 [t EXCEPT !.ret = <<retpc>> \o @], "db", "uss_done")

\* catch (error) { return null }
updateSessionSyncFailed(st, t) == Return(st, [t EXCEPT !.r = <<>>])

\* _updateSessionSync that returns what the store returned and leaves the
\* registry alone
updateSessionSyncDoneNoPatch(st, t) ==
    Return(st, [t EXCEPT !.r = <<Cur(st, t.u)>>])

\* the store answered: Object.assign(this.sessions[index], updatedSession)
updateSessionSyncDone(st, t) ==
    LET session == Cur(st, t.u)
        index == FindIndex(st, LAMBDA e : e.id = session.id)
        st1 == IF index = 0 THEN st
               ELSE [st EXCEPT !.sessions[index] =
                        [session EXCEPT !.oid = st.sessions[index].oid]]
    IN Return(st1, [t EXCEPT !.r = IF index = 0 THEN <<session>>
                                   ELSE <<st1.sessions[index]>>])

\* _addSessionSafely without the check for a session of the same window
addSessionSafelyIdOnly(st, newSession) ==
    IF newSession.id # 0 /\ FindIndex(st, LAMBDA e : e.id = newSession.id) # 0
    THEN [st |-> st, added |-> FALSE]
    ELSE [st |-> [st EXCEPT !.sessions = Append(@, newSession)], added |-> TRUE]

addSessionSafely(st, newSession) ==
    IF newSession.id # 0 /\ FindIndex(st, LAMBDA e : e.id = newSession.id) # 0
    THEN [st |-> st, added |-> FALSE]
    ELSE IF newSession.windowId # 0
            /\ FindIndex(st, LAMBDA e : e.windowId = newSession.windowId) # 0
    THEN [st |-> st, added |-> FALSE]
    ELSE [st |-> [st EXCEPT !.sessions = Append(@, newSession)], added |-> TRUE]

createTemporaryUnmatchedSession(st, curWindow) ==
    addSessionSafely(st,
        [oid |-> FreshOid(UsedOids(st), 1), id |-> 0, windowId |-> curWindow.id,
         sessionHash |-> generateSessionHash(curWindow.tabs), name |-> NoName,
         tabs |-> curWindow.tabs, history |-> <<>>,
         windowBounds |-> NoBounds]).st

\* matchSessionToWindow is called without await: it runs to its first await
matchSessionToWindow(st, session, curWindow) ==
    ensureInitialized(st, [NewTask("m_start") EXCEPT !.s = <<session>>,
                                                     !.w = curWindow.id])

\* matchSessionToWindow that clears the old binding in the registry only
matchLoopKeepRow(st, t) ==
    IF t.i < 1 THEN Resume(st, [t EXCEPT !.pc = "m_assign"])
    ELSE IF t.i > Len(st.sessions) THEN st
    ELSE LET e == st.sessions[t.i]
         IN IF e.windowId # t.w THEN Resume(st, [t EXCEPT !.i = @ - 1])
            ELSE IF e.id # 0
            THEN Resume(WriteObj(st, [e EXCEPT !.windowId = 0]), [t EXCEPT !.i = @ - 1])
            ELSE Resume(Splice(st, t.i), [t EXCEPT !.i = @ - 1])

matchLoop(st, t) ==
    IF t.i < 1 THEN Resume(st, [t EXCEPT !.pc = "m_assign"])
    ELSE IF t.i > Len(st.sessions) THEN st      \* TypeError: the call rejects
    ELSE LET e == st.sessions[t.i]
         IN IF e.windowId # t.w THEN Resume(st, [t EXCEPT !.i = @ - 1])
            ELSE IF e.id # 0
            THEN LET e2 == [e EXCEPT !.windowId = 0]
                 IN updateSessionSync(WriteObj(st, e2), [t EXCEPT !.u = <<e2>>],
                                      "m_next")
            ELSE Resume(Splice(st, t.i), [t EXCEPT !.i = @ - 1])

matchAssign(st, t) ==
    LET session == [Cur(st, t.s) EXCEPT !.windowId = t.w]
        st1 == WriteObj(st, session)
    IN IF session.id # 0
       THEN updateSessionSync(st1, [t EXCEPT !.s = <<session>>, !.u = <<session>>],
                              "m_done")
       ELSE st1

\* this._getSessionByWindowIdInternal(t.w); the result is left in t.s
getSessionByWindowIdInternal(st, t) ==
    LET k == FindIndex(st, LAMBDA e : e.windowId = t.w)
    IN IF k # 0 THEN Return(st, [t EXCEPT !.s = <<st.sessions[k]>>])
       ELSE IF st.initialized
       THEN Park(st, [t EXCEPT !.s = fetchSessionByWindowId(st, t.w)], "db", "return")
       ELSE Return(st, [t EXCEPT !.s = <<>>])

\* await this.getSessionByWindowId(t.w); the caller goes on at retpc
getSessionByWindowId(st, t, retpc) ==
    ensureInitialized(st, [t EXCEPT !.ret = <<retpc>> \o @, !.pc = "gsw"])

\* this._ensureWindowHasSession(t.cw) up to its store read
ensureWindowHasSession(st, t) ==
    LET curWindow == t.cw[1]
    IN IF Len(curWindow.tabs) = 0 THEN Return(st, t)
       ELSE IF FindIndex(st, LAMBDA e : e.windowId = curWindow.id) # 0
       THEN Return(st, t)
       ELSE Park(st, [t EXCEPT !.rows = fetchAllSessions(st)], "db", "ews_fetched")

ensureWindowHasSessionFetched(st, t) ==
    LET curWindow == t.cw[1]
        sessionHash == generateSessionHash(curWindow.tabs)
        hits == {i \in 1..Len(t.rows) :
                    t.rows[i].sessionHash = sessionHash /\ t.rows[i].windowId = 0}
    IN IF hits # {}
       THEN Return(matchSessionToWindow(st,
                      t.rows[CHOOSE i \in hits : \A j \in hits : i <= j], curWindow), t)
       ELSE Return(createTemporaryUnmatchedSession(st, curWindow), t)

handleWindowRemoved(st, windowId, markAsClosed) ==
    ensureInitialized(st, [NewTask("hwr") EXCEPT !.w = windowId,
                                                 !.mark = markAsClosed])

\* handleWindowRemoved without the check for a duplicate event
handleWindowRemovedAgain(st, t) ==
    LET st1 == IF t.mark
               THEN ClearTimer(ClearBoundsTimer(
                        [st EXCEPT !.closedWindowIds = @ \cup {t.w}], t.w), t.w)
               ELSE st
    IN getSessionByWindowId(st1, t, "hwr_session")

handleWindowRemovedStart(st, t) ==
    IF t.w \in st.closedWindowIds THEN st
    ELSE LET st1 == IF t.mark
                    THEN ClearTimer(ClearBoundsTimer(
                             [st EXCEPT !.closedWindowIds = @ \cup {t.w}], t.w), t.w)
                    ELSE st
         IN getSessionByWindowId(st1, t, "hwr_session")

\* handleWindowRemoved that drops a saved session like a temporary one
handleWindowRemovedSessionDrop(st, t) ==
    IF t.s = <<>> THEN st
    ELSE LET k == FindIndex(st, LAMBDA e : e.windowId = t.w)
         IN IF k = 0 THEN st ELSE Splice(st, k)

handleWindowRemovedSession(st, t) ==
    IF t.s = <<>> THEN st
    ELSE LET session == Cur(st, t.s)
         IN IF session.id # 0
            THEN LET s2 == [session EXCEPT !.windowId = 0]
                 IN updateSessionSync(WriteObj(st, s2),
                                      [t EXCEPT !.s = <<s2>>, !.u = <<s2>>], "done")
            ELSE LET k == FindIndex(st, LAMBDA e : e.windowId = t.w)
                 IN IF k = 0 THEN st ELSE Splice(st, k)

\* the chrome.windows.Window objects the platform returns, by ascending id
Populated(w) == [id |-> w, tabs |-> wins[w].tabs, type |-> wins[w].type]

Exists(w) == wins[w].status \in {"open", "closing"}

RECURSIVE AllWindows(_)
AllWindows(w) ==
    IF w > Cardinality(Windows) THEN <<>>
    ELSE (IF Exists(w) THEN <<Populated(w)>> ELSE <<>>) \o AllWindows(w + 1)

\* handleWindowEvent up to await chrome.windows.get
handleWindowEvent(st, windowId) ==
    IF windowId <= 0 THEN st
    ELSE Park(st, [NewTask("hwe_window") EXCEPT !.w = windowId], "chrome", "hwe_window")

\* a catch block that takes the window for closed
handleWindowEventCatchClosed(st, t) == handleWindowRemoved(st, t.w, TRUE)

\* chrome.windows.get rejected: the catch block of handleWindowEvent
handleWindowEventCatch(st, t) == handleWindowRemoved(st, t.w, FALSE)

\* handleWindowEvent that does not screen the window it is given
handleWindowEventWindowAll(st, t) ==
    IF ~Exists(t.w) THEN handleWindowEventCatch(st, t)
    ELSE IF t.w \in st.closedWindowIds THEN st
    ELSE getSessionByWindowId(st, [t EXCEPT !.cw = <<Populated(t.w)>>], "hwe_session")

handleWindowEventWindow(st, t) ==
    IF ~Exists(t.w) THEN handleWindowEventCatch(st, t)
    ELSE IF filterInternalWindows(Populated(t.w)) THEN st
    ELSE IF t.w \in st.closedWindowIds THEN st
    ELSE getSessionByWindowId(st, [t EXCEPT !.cw = <<Populated(t.w)>>], "hwe_session")

\* handleWindowEvent from if (session.id) on; session has its new tabs
handleWindowEventSave(st, t, session) ==
    IF session.id # 0
    THEN updateSessionSync(WriteObj(st, session),
                           [t EXCEPT !.s = <<session>>, !.u = <<session>>], "hwe_end")
    ELSE Resume(WriteObj(st, session),
                [t EXCEPT !.s = <<session>>, !.u = <<session>>, !.pc = "hwe_end"])

\* handleWindowEvent after its loop over historyItems left d:
\* override session tabs with tabs from window
handleWindowEventTabs(st, t, d) ==
    handleWindowEventSave([st EXCEPT !.historyQueue = d.queue], t,
        [d.session EXCEPT !.tabs = t.cw[1].tabs,
                          !.sessionHash = generateSessionHash(t.cw[1].tabs)])

\* handleWindowEvent's loop, from i = historyItems.length - 1 down
handleWindowEventHistory(st, t, historyItems) ==
    handleWindowEventTabs(st, t,
        DrainHistory(Cur(st, t.s), st.historyQueue, historyItems, Len(historyItems)))

handleWindowEventSession(st, t) ==
    IF t.s = <<>> THEN Resume(st, [t EXCEPT !.pc = "hwe_end"])
    ELSE handleWindowEventHistory(st, t,
             SelectSeq(st.historyQueue,
                       LAMBDA historyItem : historyItem.windowId = t.w))

handleWindowEventEnd(st, t) ==
    IF t.s = <<>> THEN ensureWindowHasSession(st, [t EXCEPT !.ret = <<>>])
    ELSE st

\* captureWindowBounds(windowId, bounds); bounds travel in t.cw
captureWindowBounds(st, windowId, bounds) ==
    ensureInitialized(st, [NewTask("cwb") EXCEPT !.w = windowId, !.cw = <<bounds>>])

\* captureWindowBounds that keeps the timers of earlier captures armed
captureWindowBoundsKeep(st, t) ==
    IF t.s = <<>> \/ Cur(st, t.s).id = 0 THEN st
    ELSE LET session == [Cur(st, t.s) EXCEPT !.windowBounds =
                            [left |-> t.cw[1].left, top |-> t.cw[1].top,
                             width |-> t.cw[1].width, height |-> t.cw[1].height]]
         IN Park(WriteObj(st, session),
                 [NewTask("cwb_timer") EXCEPT !.w = t.w, !.u = <<session>>],
                 "timer", "cwb_timer")

\* captureWindowBounds from if (session && session.id) on
captureWindowBoundsSession(st, t) ==
    IF t.s = <<>> \/ Cur(st, t.s).id = 0 THEN st
    ELSE LET session == [Cur(st, t.s) EXCEPT !.windowBounds =
                            [left |-> t.cw[1].left, top |-> t.cw[1].top,
                             width |-> t.cw[1].width, height |-> t.cw[1].height]]
         IN Park(ClearBoundsTimer(WriteObj(st, session), t.w),
                 [NewTask("cwb_timer") EXCEPT !.w = t.w, !.u = <<session>>],
                 "timer", "cwb_timer")

\* handleTabRemoved that treats every removal as a single tab removal
handleTabRemovedAlways(st, t) ==
    LET st1 == [st EXCEPT !.historyQueue =
                   Append(@, [url |-> st.tabHistoryUrlMap[t.tabId],
                              windowId |-> t.w, action |-> "add"])]
        st2 == queueWindowEvent(st1, t.w)
    IN [st2 EXCEPT !.tabHistoryUrlMap[t.tabId] = NoUrl]

\* handleTabRemoved that leaves the tab in tabHistoryUrlMap
handleTabRemovedKeepMap(st, t) ==
    IF t.flag THEN handleWindowRemoved(st, t.w, TRUE)
    ELSE queueWindowEvent(
             [st EXCEPT !.historyQueue =
                 Append(@, [url |-> st.tabHistoryUrlMap[t.tabId],
                            windowId |-> t.w, action |-> "add"])], t.w)

handleTabRemoved(st, t) ==
    IF t.flag THEN handleWindowRemoved(st, t.w, TRUE)
    ELSE LET st1 == [st EXCEPT !.historyQueue =
                        Append(@, [url |-> st.tabHistoryUrlMap[t.tabId],
                                   windowId |-> t.w, action |-> "add"])]
             st2 == queueWindowEvent(st1, t.w)
         IN [st2 EXCEPT !.tabHistoryUrlMap[t.tabId] = NoUrl]

handleTabMoved(st, t) == queueWindowEvent(st, t.w)

handleTabUpdated(st, t) ==
    LET st1 == IF t.complete
               THEN queueWindowEvent([st EXCEPT !.tabHistoryUrlMap[t.tabId] = t.url], t.w)
               ELSE st
    IN IF t.flag
       THEN [st1 EXCEPT !.historyQueue =
                Append(@, [url |-> t.url, windowId |-> t.w, action |-> "remove"])]
       ELSE st1

\* saveNewSession(t.name, t.tabs, t.w) after its ensureInitialized
saveNewSession(st, t) ==
    IF t.w # 0 THEN getSessionByWindowId(st, t, "sns_existing")
    ELSE Resume(st, [t EXCEPT !.pc = "sns_new"])

\* saveNewSession that takes over whatever session the window has, saved or not
saveNewSessionTakeOver(st, t) ==
    IF t.s = <<>> THEN Resume(st, [t EXCEPT !.pc = "sns_new"])
    ELSE Resume(st, [t EXCEPT !.pc = "sns_fill"])

saveNewSessionExisting(st, t) ==
    IF t.s = <<>> THEN Resume(st, [t EXCEPT !.pc = "sns_new"])
    ELSE IF Cur(st, t.s).id # 0
    THEN [st EXCEPT !.result = [op |-> "saveNewSession", w |-> t.w, val |-> <<>>]]
    ELSE Resume(st, [t EXCEPT !.pc = "sns_fill", !.cw = t.s])   \* existingSession

saveNewSessionNew(st, t) ==
    LET session == [oid |-> FreshOid(UsedOids(st), 1), id |-> 0, windowId |-> t.w,
                    sessionHash |-> 0, name |-> NoName, tabs |-> <<>>, history |-> <<>>,
                    windowBounds |-> NoBounds]
        a == addSessionSafely(st, session)
    IN IF a.added THEN Resume(a.st, [t EXCEPT !.s = <<session>>, !.pc = "sns_fill"])
       ELSE getSessionByWindowId(st, t, "sns_race")

saveNewSessionRace(st, t) ==
    IF t.s = <<>>
    THEN [st EXCEPT !.result = [op |-> "saveNewSession", w |-> t.w, val |-> <<>>]]
    ELSE Resume(st, [t EXCEPT !.pc = "sns_fill"])

\* fill in the session and issue dbService.createSession (_createSessionSync)
saveNewSessionFill(st, t) ==
    LET session == [Cur(st, t.s) EXCEPT !.name = t.name,
                                        !.sessionHash = generateSessionHash(t.tabs),
                                        !.tabs = t.tabs]
        saved == [Row(session) EXCEPT !.id = st.nextId]
        st1 == WriteObj(st, session)
    IN IF st.storeFails
       THEN Park(st1, [t EXCEPT !.s = <<session>>], "db", "sns_failed")
       ELSE Park([st1 EXCEPT !.store = Append(@, saved), !.nextId = @ + 1],
                 [t EXCEPT !.s = <<session>>, !.u = <<Obj(saved, 0)>>],
                 "db", "sns_created")

\* dbService.createSession returned nothing or threw: return null
saveNewSessionFailed(st, t) ==
    [st EXCEPT !.result = [op |-> "saveNewSession", w |-> t.w, val |-> <<>>]]

saveNewSessionCreated(st, t) ==
    LET index == IndexByOid(st, t.s[1].oid)
        savedSession == t.u[1]
        st1 == IF index = 0 THEN st
               ELSE [st EXCEPT !.sessions[index] =
                        [savedSession EXCEPT !.oid = st.sessions[index].oid]]
    IN [st1 EXCEPT !.result = [op |-> "saveNewSession", w |-> t.w,
                               val |-> <<Row(savedSession)>>]]

\* updateSessionTabs(t.id, t.tabs) up to its store read
updateSessionTabs(st, t) ==
    Park(st, [t EXCEPT !.s = fetchSessionById(st, t.id)], "db", "ust_fetched")

\* updateSessionTabs that leaves the hash of the old tabs in place
updateSessionTabsKeepHash(st, t) ==
    IF t.s = <<>> THEN st
    ELSE LET session == [t.s[1] EXCEPT !.tabs = t.tabs]
         IN updateSessionSync(st, [t EXCEPT !.s = <<session>>, !.u = <<session>>],
                              "done")

\* session.tabs = tabs; session.sessionHash = ...; saveExistingSession(session)
updateSessionTabsFetched(st, t) ==
    IF t.s = <<>> THEN st                       \* TypeError: the call rejects
    ELSE LET session == [t.s[1] EXCEPT !.tabs = t.tabs,
                                       !.sessionHash = generateSessionHash(t.tabs)]
         IN updateSessionSync(st, [t EXCEPT !.s = <<session>>, !.u = <<session>>],
                              "done")

\* handleDeleteSession / deleteSession(t.id)
handleDeleteSession(st, t) ==
    Park(st, [t EXCEPT !.s = fetchSessionById(st, t.id)], "db", "del_fetched")

handleDeleteSessionFetched(st, t) ==
    IF t.s = <<>>
    THEN [st EXCEPT !.result = [op |-> "deleteSession", w |-> t.id, val |-> <<FALSE>>]]
    ELSE Park(removeSession(st, t.id), t, "db", "del_removed")

deleteSessionRemoved(st, t) ==
    LET k == FindIndex(st, LAMBDA e : e.id = t.id)
        st1 == IF k = 0 THEN st ELSE Splice(st, k)
    IN [st1 EXCEPT !.result = [op |-> "deleteSession", w |-> t.id, val |-> <<TRUE>>]]

----------------------------------------------------------------------------
(* background.js: the requests that give a session its name.  Each parks   *)
(* at its store read; the service calls they end in are the ones above.    *)

ImportedLit == <<73,109,112,111,114,116,101,100,32,115,112,97,99,101,58,32>>

\* tempName + count, for the counts below ten
ImportedName(count) == ImportedLit \o <<48 + count>>

\* spacesService.updateSessionName(t.id, t.name) up to its store read
updateSessionName(st, t) ==
    Park(st, [t EXCEPT !.s = fetchSessionById(st, t.id)], "db", "usn_fetched")

\* session.name = sessionName; return this.saveExistingSession(session)
updateSessionNameFetched(st, t) ==
    IF t.s = <<>> THEN st                       \* TypeError: the call rejects
    ELSE LET session == [t.s[1] EXCEPT !.name = t.name]
         IN updateSessionSync(st, [t EXCEPT !.s = <<session>>, !.u = <<session>>],
                              "usn_saved")

updateSessionNameSaved(st, t) ==
    [st EXCEPT !.result = [op |-> "updateSessionName", w |-> t.id,
                           val |-> <<Row(Cur(st, t.u))>>]]

\* handleDeleteSession(existingSession.id, noop), not awaited
DeleteExisting(st, t) ==
    IF t.s = <<>> THEN st
    ELSE handleDeleteSession(st, [NewTask("del") EXCEPT !.id = t.s[1].id])

\* handleUpdateSessionName(t.id, t.name, t.flag) up to its store read
handleUpdateSessionName(st, t) ==
    Park(st, [t EXCEPT !.s = fetchSessionByName(st, t.name)], "db", "husn_named")

\* handleUpdateSessionName that overwrites without being asked to
handleUpdateSessionNameForce(st, t) ==
    updateSessionName(DeleteExisting(st, t), [t EXCEPT !.s = <<>>])

handleUpdateSessionNameNamed(st, t) ==
    IF t.s # <<>> /\ ~t.flag
    THEN [st EXCEPT !.result = [op |-> "updateSessionName", w |-> t.id, val |-> <<>>]]
    ELSE updateSessionName(DeleteExisting(st, t), [t EXCEPT !.s = <<>>])

\* handleSaveNewSession(t.w, t.name, t.flag) up to chrome.windows.get
handleSaveNewSession(st, t) == Park(st, t, "chrome", "hsns_window")

handleSaveNewSessionWindow(st, t) ==
    IF ~Exists(t.w) THEN st                     \* windows.get rejects
    ELSE Park(st, [t EXCEPT !.cw = <<Populated(t.w)>>,
                            !.s = fetchSessionByName(st, t.name)], "db", "hsns_named")

handleSaveNewSessionNamed(st, t) ==
    IF t.s # <<>> /\ ~t.flag
    THEN [st EXCEPT !.result = [op |-> "saveNewSession", w |-> t.w, val |-> <<>>]]
    ELSE ensureInitialized(DeleteExisting(st, t),
            [NewTask("sns") EXCEPT !.w = t.cw[1].id, !.name = t.name,
                                   !.tabs = t.cw[1].tabs])

\* handleRestoreFromBackup({name: t.name, tabs: t.tabs}, t.flag)
handleRestoreFromBackup(st, t) ==
    IF t.name = NoName THEN Resume(st, [t EXCEPT !.pc = "hrfb_named"])
    ELSE Park(st, [t EXCEPT !.s = fetchSessionByName(st, t.name)], "db", "hrfb_named")

handleRestoreFromBackupNamed(st, t) ==
    IF t.s # <<>> /\ ~t.flag
    THEN [st EXCEPT !.result = [op |-> "saveNewSession", w |-> 0, val |-> <<>>]]
    ELSE ensureInitialized(DeleteExisting(st, t),
            [NewTask("sns") EXCEPT !.name = t.name, !.tabs = t.tabs])

\* handleImportNewSession(t.q): one turn of its while loop, count is t.i
handleImportNewSession(st, t) ==
    Park(st, [t EXCEPT !.s = fetchSessionByName(st, ImportedName(t.i))],
         "db", "hins_named")

handleImportNewSessionNamed(st, t) ==
    IF t.s # <<>> THEN handleImportNewSession(st, [t EXCEPT !.i = @ + 1])
    ELSE ensureInitialized(st,
            [NewTask("sns") EXCEPT !.name = ImportedName(t.i),
                                   !.tabs = [k \in 1..Len(t.q) |-> [url |-> t.q[k]]]])

----------------------------------------------------------------------------
(* Initialization *)

\* this.sessions = sessions: the rows just read become the registry objects;
\* the objects of the old array live on in the tasks that hold them
ReplaceRegistry(st, rows) ==
    LET keep(loc) == IF loc = <<>> THEN loc ELSE <<Cur(st, loc)>>
        held == [i \in 1..Len(st.tasks) |->
                    [st.tasks[i] EXCEPT !.s = keep(@), !.u = keep(@)]]
        used == UsedOids([sessions |-> <<>>, tasks |-> held])
    IN [st EXCEPT !.tasks = held,
                  !.sessions = [i \in 1..Len(rows) |->
                                   [rows[i] EXCEPT !.oid = FreshOid(used, i)]]]

initFetchSessions(st, t) ==
    Park(st, [t EXCEPT !.rows = fetchAllSessions(st)], "db", "init_rows")

initGetWindows(st, t) == Park(st, t, "chrome", "init_windows")

initWindows(st, t) ==
    Resume(ReplaceRegistry(st, t.rows),
           [t EXCEPT !.q = AllWindows(1), !.rows = <<>>, !.pc = "init_loop"])

\* for (const curWindow of windows) ... this.initialized = true
initLoop(st, t) ==
    IF t.q = <<>>
    THEN LET st1 == [st EXCEPT !.initialized = TRUE]
         IN IF t.via THEN Park(st1, t, "chrome", "init_tabs") ELSE Return(st1, t)
    ELSE LET curWindow == Head(t.q)
             t1 == [t EXCEPT !.q = Tail(@), !.cw = <<curWindow>>, !.w = curWindow.id,
                             !.s = <<>>]
         IN IF filterInternalWindows(curWindow) THEN Resume(st, t1)
            ELSE IF Len(curWindow.tabs) = 0 THEN Resume(st, t1)
            ELSE getSessionByWindowIdInternal(st,
                     [t1 EXCEPT !.ret = <<"init_checked">> \o @])

\* _checkForSessionMatchDuringInit after its lookup by window id
initChecked(st, t) ==
    IF t.s # <<>> THEN Resume(st, [t EXCEPT !.s = <<>>, !.pc = "init_loop"])
    ELSE ensureWindowHasSession(st, [t EXCEPT !.ret = <<"init_loop">> \o @])

OpenTabUrl(tabId) ==
    LET at == {<<w, i>> \in Windows \X (1..Cardinality(TabIds)) :
                  Exists(w) /\ i <= Len(wins[w].tabs) /\ wins[w].tabs[i].id = tabId}
    IN IF at = {} THEN <<>>
       ELSE LET p == CHOOSE x \in at : TRUE IN <<wins[p[1]].tabs[p[2]].url>>

RECURSIVE RunWaiters(_, _)
RunWaiters(st, waiters) ==
    IF waiters = <<>> THEN st
    ELSE RunWaiters(Resume(st, Head(waiters)), Tail(waiters))

\* clearWindowIdAssociations up to its store read
clearWindowIdAssociations(st, t) ==
    Park(st, [t EXCEPT !.rows = fetchAllSessions(st)], "db", "cwa_fetched")

\* ... its second loop: the registry, if it is loaded
clearWindowIdCache(st, t) ==
    Return([st EXCEPT !.sessions =
               [k \in 1..Len(@) |-> [@[k] EXCEPT !.windowId = 0]]], t)

\* ... its first loop, over the rows it read, from row t.i on
clearWindowIdLoop(st, t) ==
    IF t.i > Len(t.rows) THEN clearWindowIdCache(st, t)
    ELSE IF t.rows[t.i].windowId = 0 THEN Resume(st, [t EXCEPT !.i = @ + 1])
    ELSE updateSessionSync(st,
             [t EXCEPT !.u = <<[t.rows[t.i] EXCEPT !.windowId = 0]>>, !.i = @ + 1],
             "cwa_loop")

\* the chrome.runtime.onStartup listener of background.js
onStartup(st) ==
    clearWindowIdAssociations(st, [NewTask("cwa") EXCEPT !.ret = <<"startup_init">>])

\* ... await spacesService.initialiseSpaces()
onStartupInit(st, t) ==
    Park([st EXCEPT !.initialized = FALSE],
         [NewTask("init_version") EXCEPT !.ret = <<"startup_done">>],
         "chrome", "init_version")

\* ... rediscoverWindowIds() does not touch the service: the listener is done
onStartupDone(st, t) ==
    [st EXCEPT !.result = [op |-> "onStartup", w |-> 0, val |-> <<>>]]

\* chrome.windows.getAll rejected: catch (error) { this.initialized = false },
\* and initialiseSpaces resolves; the .then callback of ensureInitialized runs
initialiseSpacesCatch(st, t) ==
    LET st1 == [st EXCEPT !.initialized = FALSE]
    IN IF t.via THEN Park(st1, [t EXCEPT !.rows = <<>>], "chrome", "init_tabs_failed")
       ELSE Return(st1, [t EXCEPT !.rows = <<>>])

\* the .then callback of ensureInitialized after chrome.tabs.query answered
initTabHistory(st, t) ==
    LET map == [tabId \in TabIds |->
                   IF OpenTabUrl(tabId) = <<>> THEN st.tabHistoryUrlMap[tabId]
                   ELSE OpenTabUrl(tabId)[1]]
        waiters == SelectSeq(st.tasks, LAMBDA x : x.wait = "init")
        st1 == [st EXCEPT !.tabHistoryUrlMap = map, !.initialized = TRUE,
                          !.initializationPromise = FALSE,
                          !.tasks = SelectSeq(@, LAMBDA x : x.wait # "init")]
    IN RunWaiters(st1, waiters)

Resume(st, t) ==
    CASE t.pc = "return" -> Return(st, t)
      [] t.pc = "done" -> st
      [] t.pc = "uss_done" -> updateSessionSyncDone(st, t)
      [] t.pc = "uss_failed" -> updateSessionSyncFailed(st, t)
      [] t.pc = "uss_call" -> updateSessionSync(st, t, "uss_returned")
      [] t.pc = "uss_throws" -> updateSessionSyncThrows(st, t, "uss_returned")
      [] t.pc = "uss_returned" ->
            [st EXCEPT !.result = [op |-> "updateSessionSync", w |-> 0, val |-> t.r]]
      [] t.pc = "gsw" -> getSessionByWindowIdInternal(st, t)
      [] t.pc = "ews_fetched" -> ensureWindowHasSessionFetched(st, t)
      [] t.pc = "m_start" -> Resume(st, [t EXCEPT !.i = Len(st.sessions), !.pc = "m_loop"])
      [] t.pc = "m_loop" -> matchLoop(st, t)
      [] t.pc = "m_next" -> Resume(st, [t EXCEPT !.i = @ - 1, !.pc = "m_loop"])
      [] t.pc = "m_assign" -> matchAssign(st, t)
      [] t.pc = "m_done" -> st
      [] t.pc = "hwr" -> handleWindowRemovedStart(st, t)
      [] t.pc = "hwr_session" -> handleWindowRemovedSession(st, t)
      [] t.pc = "hwe_window" -> handleWindowEventWindow(st, t)
      [] t.pc = "hwe_session" -> handleWindowEventSession(st, t)
      [] t.pc = "hwe_end" -> handleWindowEventEnd(st, t)
      [] t.pc = "cwb" -> getSessionByWindowId(st, t, "cwb_session")
      [] t.pc = "cwb_session" -> captureWindowBoundsSession(st, t)
      [] t.pc = "cwb_timer" -> updateSessionSync(st, t, "done")
      [] t.pc = "htr" -> handleTabRemoved(st, t)
      [] t.pc = "htm" -> handleTabMoved(st, t)
      [] t.pc = "htu" -> handleTabUpdated(st, t)
      [] t.pc = "sns" -> saveNewSession(st, t)
      [] t.pc = "sns_existing" -> saveNewSessionExisting(st, t)
      [] t.pc = "sns_new" -> saveNewSessionNew(st, t)
      [] t.pc = "sns_race" -> saveNewSessionRace(st, t)
      [] t.pc = "sns_fill" -> saveNewSessionFill(st, t)
      [] t.pc = "sns_created" -> saveNewSessionCreated(st, t)
      [] t.pc = "sns_failed" -> saveNewSessionFailed(st, t)
      [] t.pc = "ust" -> updateSessionTabs(st, t)
      [] t.pc = "ust_fetched" -> updateSessionTabsFetched(st, t)
      [] t.pc = "usn_fetched" -> updateSessionNameFetched(st, t)
      [] t.pc = "usn_saved" -> updateSessionNameSaved(st, t)
      [] t.pc = "husn_named" -> handleUpdateSessionNameNamed(st, t)
      [] t.pc = "hsns_window" -> handleSaveNewSessionWindow(st, t)
      [] t.pc = "hsns_named" -> handleSaveNewSessionNamed(st, t)
      [] t.pc = "hrfb_named" -> handleRestoreFromBackupNamed(st, t)
      [] t.pc = "hins_named" -> handleImportNewSessionNamed(st, t)
      [] t.pc = "del" -> handleDeleteSession(st, t)
      [] t.pc = "ras_fetched" ->
            [st EXCEPT !.result = [op |-> "requestAllSpaces", w |-> 0,
                                   val |-> requestAllSpaces(t.rows)]]
      [] t.pc = "del_fetched" -> handleDeleteSessionFetched(st, t)
      [] t.pc = "del_removed" -> deleteSessionRemoved(st, t)
      [] t.pc = "init_version" -> initFetchSessions(st, t)
      [] t.pc = "init_rows" -> initGetWindows(st, t)
      [] t.pc = "init_windows" -> initWindows(st, t)
      [] t.pc = "init_loop" -> initLoop(st, t)
      [] t.pc = "init_checked" -> initChecked(st, t)
      [] t.pc = "init_tabs" -> initTabHistory(st, t)
      [] t.pc = "init_tabs_failed" -> initTabHistory(st, t)
      [] t.pc = "cwa_fetched" -> Resume(st, [t EXCEPT !.i = 1, !.pc = "cwa_loop"])
      [] t.pc = "cwa_loop" -> clearWindowIdLoop(st, t)
      [] t.pc = "startup_init" -> onStartupInit(st, t)
      [] t.pc = "startup_done" -> onStartupDone(st, t)

----------------------------------------------------------------------------
(* The platform and the macrotasks *)

(* The browser sends its events and the answers to chrome.* calls over one *)
(* ordered channel, and the engine reads the platform only in those        *)
(* answers.  A platform change therefore commutes with every macrotask     *)
(* that runs before its event is delivered, and change and delivery are    *)
(* taken as one step.                                                      *)

Tab(id, url) == [id |-> id, url |-> url]

Urls == {UrlA, UrlB}

NoEvent == [ev |-> "none", w |-> 0, tabId |-> 0, url |-> NoUrl,
            complete |-> FALSE, flag |-> FALSE]

\* the listeners of background.js
Listener(st, e) ==
    LET handler == CASE e.ev = "updated" -> "htu"
                     [] e.ev = "removed" -> "htr"
                     [] e.ev = "moved" -> "htm"
                     [] e.ev = "winRemoved" -> "hwr"
    IN ensureInitialized(st,
           [NewTask(handler) EXCEPT !.w = e.w, !.tabId = e.tabId, !.url = e.url,
                                    !.complete = e.complete, !.flag = e.flag,
                                    !.mark = (e.ev = "winRemoved")])

Deliver(e) == Commit(Listener(Engine, e))

Spend == evBudget > 0 /\ evBudget' = evBudget - 1 /\ Len(tasks) < MaxTasks

\* a tab of window w navigates: tabs.onUpdated with changeInfo.url
Navigate(w, k, u, complete) ==
    /\ Spend
    /\ Exists(w) /\ k <= Len(wins[w].tabs) /\ wins[w].tabs[k].url # u
    /\ wins' = [wins EXCEPT ![w].tabs[k].url = u]
    /\ Deliver([NoEvent EXCEPT !.ev = "updated", !.w = w, !.tabId = wins[w].tabs[k].id,
                                !.url = u, !.complete = complete, !.flag = TRUE])
    /\ UNCHANGED callBudget

\* the user closes one tab of several: tabs.onRemoved, isWindowClosing false
CloseTab(w, k) ==
    /\ Spend
    /\ wins[w].status = "open" /\ Len(wins[w].tabs) >= 2 /\ k <= Len(wins[w].tabs)
    /\ wins' = [wins EXCEPT ![w].tabs = RemoveAt(@, k)]
    /\ Deliver([NoEvent EXCEPT !.ev = "removed", !.w = w, !.tabId = wins[w].tabs[k].id])
    /\ UNCHANGED callBudget

\* the user drags the first tab behind the second: tabs.onMoved
MoveTab(w) ==
    /\ Spend
    /\ wins[w].status = "open" /\ Len(wins[w].tabs) = 2
    /\ wins' = [wins EXCEPT ![w].tabs = <<@[2], @[1]>>]
    /\ Deliver([NoEvent EXCEPT !.ev = "moved", !.w = w, !.tabId = wins[w].tabs[1].id])
    /\ UNCHANGED callBudget

\* the user closes window w: its tabs are removed with isWindowClosing true
BeginClose(w) ==
    /\ Spend
    /\ wins[w].status = "open" /\ Len(wins[w].tabs) >= 1
    /\ wins' = [wins EXCEPT ![w].status = "closing", ![w].tabs = Tail(@)]
    /\ Deliver([NoEvent EXCEPT !.ev = "removed", !.w = w, !.tabId = wins[w].tabs[1].id,
                                !.flag = TRUE])
    /\ UNCHANGED callBudget

\* ... and then the window is gone: windows.onRemoved
FinishClose(w) ==
    /\ wins[w].status = "closing"
    /\ wins' = [wins EXCEPT ![w].status = "gone", ![w].tabs = <<>>]
    /\ Deliver([NoEvent EXCEPT !.ev = "winRemoved", !.w = w])
    /\ UNCHANGED <<evBudget, callBudget>>

\* the user opens a new window: its tab reports tabs.onUpdated when loaded
OpenWindow(w) ==
    /\ Spend
    /\ wins[w].status = "none"
    /\ wins' = [wins EXCEPT ![w].status = "open", ![w].tabs = <<Tab(3, UrlA)>>]
    /\ Deliver([NoEvent EXCEPT !.ev = "updated", !.w = w, !.tabId = 3, !.url = UrlA,
                                !.complete = TRUE])
    /\ UNCHANGED callBudget

\* the 1 s timer set by queueWindowEvent fires
TimerFire(w) ==
    /\ timers[w] > 0
    /\ Len(tasks) < MaxTasks
    /\ Commit(handleWindowEvent(
            [Engine EXCEPT !.timers[w] = @ - 1,
                           !.sessionUpdateTimers[w] = (timers[w] > 1)], w))
    /\ UNCHANGED <<wins, evBudget, callBudget>>

FirstWaiting(kind) ==
    LET hits == {i \in 1..Len(tasks) : tasks[i].wait = kind}
    IN IF hits = {} THEN 0 ELSE CHOOSE i \in hits : \A j \in hits : i <= j

RunTask(i) == Commit(Resume([Engine EXCEPT !.tasks = RemoveAt(@, i)], tasks[i]))

\* the store answers its oldest outstanding request
DbDone ==
    /\ FirstWaiting("db") # 0
    /\ RunTask(FirstWaiting("db"))
    /\ UNCHANGED <<wins, evBudget, callBudget>>

\* the browser answers its oldest outstanding request
ChromeDone ==
    /\ FirstWaiting("chrome") # 0
    /\ RunTask(FirstWaiting("chrome"))
    /\ UNCHANGED <<wins, evBudget, callBudget>>

\* saveNewSession(name, tabs, w) is called with the tabs of open window w
CallSaveNewSession(w, name) ==
    /\ callBudget > 0 /\ callBudget' = callBudget - 1
    /\ Len(tasks) < MaxTasks
    /\ wins[w].status = "open"
    /\ Commit(ensureInitialized(Engine,
            [NewTask("sns") EXCEPT !.w = w, !.name = name, !.tabs = wins[w].tabs]))
    /\ UNCHANGED <<wins, evBudget>>

\* the spaces page asks to delete a saved session
CallDeleteSession(id) ==
    /\ callBudget > 0 /\ callBudget' = callBudget - 1
    /\ Len(tasks) < MaxTasks
    /\ Commit(ensureInitialized(Engine, [NewTask("del") EXCEPT !.id = id]))
    /\ UNCHANGED <<wins, evBudget>>

\* a page asks to replace the tabs of a saved session: updateSessionTabs
CallUpdateSessionTabs(id, tabs) ==
    /\ callBudget > 0 /\ callBudget' = callBudget - 1
    /\ Len(tasks) < MaxTasks
    /\ Commit(updateSessionTabs(Engine, [NewTask("ust") EXCEPT !.id = id,
                                                                !.tabs = tabs]))
    /\ UNCHANGED <<wins, evBudget>>

----------------------------------------------------------------------------
(* Initial states: the service worker has just evaluated background.js,    *)
(* whose last statement calls spacesService.initialiseSpaces() directly.   *)

Tabs1 == <<Tab(1, UrlA), Tab(2, UrlB)>>

NoWindow == [status |-> "none", tabs |-> <<>>, type |-> "normal"]

Saved(id, windowId, tabs) ==
    [id |-> id, windowId |-> windowId, sessionHash |-> generateSessionHash(tabs),
     name |-> NameWork, tabs |-> tabs, history |-> <<>>, windowBounds |-> NoBounds]

InitialStores ==
    { <<>>,                              \* nothing saved
      <<Saved(1, 0, Tabs1)>>,            \* saved and closed: browser restart
      <<Saved(1, 1, Tabs1)>> }           \* saved and open: worker reactivation

Init ==
    /\ sessions = <<>>
    /\ store \in InitialStores
    /\ nextId = Len(store) + 1
    /\ tabHistoryUrlMap = [tabId \in TabIds |-> NoUrl]
    /\ closedWindowIds = {}
    /\ sessionUpdateTimers = [w \in Windows |-> FALSE]
    /\ timers = [w \in Windows |-> 0]
    /\ historyQueue = <<>>
    /\ initialized = FALSE
    /\ initializationPromise = FALSE
    /\ tasks = <<[NewTask("init_version") EXCEPT !.wait = "chrome"]>>
    /\ result = NoResult
    /\ wins = [w \in Windows |->
                  IF w = 1 THEN [status |-> "open", tabs |-> Tabs1, type |-> "normal"]
                  ELSE NoWindow]
    /\ evBudget = MaxEvents
    /\ callBudget = MaxCalls

Next ==
    \/ \E w \in Windows, u \in Urls, c \in BOOLEAN : Navigate(w, 1, u, c)
    \/ \E w \in Windows, k \in 1..2 : CloseTab(w, k)
    \/ \E w \in Windows : MoveTab(w)
    \/ \E w \in Windows : BeginClose(w)
    \/ \E w \in Windows : FinishClose(w)
    \/ \E w \in Windows : OpenWindow(w)
    \/ \E w \in Windows : TimerFire(w)
    \/ DbDone
    \/ ChromeDone
    \/ \E w \in Windows : CallSaveNewSession(w, NameHome)
    \/ \E id \in 1..2 : CallDeleteSession(id)
    \/ \E id \in 1..2 : CallUpdateSessionTabs(id, <<Tab(3, UrlB)>>)

Spec == Init /\ [][Next]_vars

TypeOK ==
    /\ initialized \in BOOLEAN
    /\ initializationPromise \in BOOLEAN
    /\ \A w \in Windows : timers[w] \in 0..MaxEvents

----------------------------------------------------------------------------
(* Properties *)

BoundTo(w) == {i \in 1..Len(sessions) : sessions[i].windowId = w}

\* C1: no two entries of the registry have the same present windowId
NoSharedWindowId == \A w \in Windows : Cardinality(BoundTo(w)) <= 1

\* handleWindowRemoved(w, true) has run: w is marked and the call has returned
InFlight(fn, w) == \E i \in 1..Len(tasks) : tasks[i].fn = fn /\ tasks[i].w = w

Closed(w) == w \in closedWindowIds /\ ~InFlight("hwr", w)

\* C2: once window w is in closedWindowIds and handleWindowRemoved has
\* returned, no entry of the registry has windowId w
ClosedNeverBound == \A w \in Windows : Closed(w) => BoundTo(w) = {}

\* the steps in which the engine receives an event that names window w
EventNaming(w) ==
    \/ \E u \in Urls, c \in BOOLEAN : Navigate(w, 1, u, c)
    \/ \E k \in 1..2 : CloseTab(w, k)
    \/ MoveTab(w)
    \/ BeginClose(w)
    \/ FinishClose(w)
    \/ TimerFire(w)

\* C3: after handleWindowRemoved(w, true) has run, an event that names w
\* changes neither the registry, nor the store, nor historyQueue
ClosedEventsDiscarded ==
    [][\A w \in Windows :
          Closed(w) /\ EventNaming(w) => UNCHANGED <<sessions, store, historyQueue>>]_vars

\* the tabs of the durable sessions, in the registry and in the store
DurableTabs ==
    {<<sessions[i].id, sessions[i].tabs>> : i \in {j \in 1..Len(sessions) : sessions[j].id # 0}}

\* C4: a handleWindowEvent(w) that resumes after w was marked closed neither
\* overwrites the tabs of a durable session nor writes to the store
ClosedNotOverwritten ==
    [][\A i \in 1..Len(tasks) :
          tasks[i].fn = "hwe_window" /\ tasks[i].w \in closedWindowIds /\ RunTask(i)
              => store' = store /\ DurableTabs \subseteq DurableTabs']_vars

\* no handler is in flight and no window-event timer is pending
Quiet == tasks = <<>> /\ \A w \in Windows : timers[w] = 0

Live(w) ==
    /\ wins[w].status = "open"
    /\ Len(wins[w].tabs) >= 1
    /\ ~filterInternalWindows(Populated(w))

\* C5: once initialized, and with no handler in flight, every live window
\* that has a tab is bound to exactly one entry of the registry
LiveWindowBound ==
    initialized /\ Quiet => \A w \in Windows : Live(w) => Cardinality(BoundTo(w)) = 1

\* the runs of initialiseSpaces that have started and not yet returned
InitRuns == {i \in 1..Len(tasks) : tasks[i].fn = "init_version" /\ tasks[i].pc # "init_tabs"}

\* C6: at most one run of initialiseSpaces is executing at any time
SingleInitRun == Cardinality(InitRuns) <= 1

\* the steps in which a handler that starts with ensureInitialized is called
\* for an event of window w
HandlerCalled(w) ==
    \/ \E u \in Urls, c \in BOOLEAN : Navigate(w, 1, u, c)
    \/ \E k \in 1..2 : CloseTab(w, k)
    \/ MoveTab(w)
    \/ BeginClose(w)
    \/ FinishClose(w)

\* tabHistoryUrlMap knows the url of every open tab
TabsKnown ==
    \A w \in Windows : \A k \in 1..Len(wins[w].tabs) :
        Exists(w) => tabHistoryUrlMap[wins[w].tabs[k].id] # NoUrl

\* the whole init sequence is done: no run of initialiseSpaces and no
\* _initialiseTabHistory is in flight, and the tab map is populated
InitDone ==
    /\ \A i \in 1..Len(tasks) : tasks[i].fn # "init_version"
    /\ TabsKnown

\* C7: a handler whose ensureInitialized returns at once (initialized is
\* true when it is called) runs only when the whole init sequence is done
BarrierAfterInit ==
    [][\A w \in Windows : initialized /\ HandlerCalled(w) => InitDone]_vars

\* nothing but the start-up has happened, and the store holds one session
\* whose hash is the hash of the tabs of live window 1
RestartOnly ==
    /\ evBudget = MaxEvents /\ callBudget = MaxCalls
    /\ Len(store) = 1
    /\ store[1].sessionHash = generateSessionHash(wins[1].tabs)

\* initialization reports done: initialized is set and no run is in flight
InitReportedDone == initialized /\ \A i \in 1..Len(tasks) : tasks[i].fn # "init_version"

\* C8: when initialization reports done after a restart, the saved session
\* is bound to window 1 in the store and in the registry, and the registry
\* has exactly one entry for window 1, which is that (durable) session
RestartRebind ==
    RestartOnly /\ InitReportedDone
        => /\ store[1].windowId = 1
           /\ Cardinality(BoundTo(1)) = 1
           /\ \A i \in BoundTo(1) : sessions[i].id = store[1].id

BoundDurable(w) == \E i \in BoundTo(w) : sessions[i].id # 0

SaveRejected(w) ==
    /\ result' = [op |-> "saveNewSession", w |-> w, val |-> <<>>]
    /\ UNCHANGED <<sessions, store, nextId>>

\* the store answers saveNewSession's lookup for window w with a saved session
LookupFindsSaved(w, i) ==
    /\ tasks[i].fn = "sns" /\ tasks[i].w = w
    /\ tasks[i].pc = "return" /\ tasks[i].ret = <<"sns_existing">>
    /\ tasks[i].s # <<>> /\ tasks[i].s[1].id # 0
    /\ RunTask(i)

\* initialization completes and the only caller it wakes is a saveNewSession
\* for window w
WakesSaveOnly(w, i) ==
    /\ tasks[i].pc = "init_tabs" /\ tasks[i].wait = "chrome"
    /\ \E j \in 1..Len(tasks) :
          /\ tasks[j].wait = "init" /\ tasks[j].fn = "sns" /\ tasks[j].w = w
          /\ \A k \in 1..Len(tasks) : tasks[k].wait = "init" => k = j
    /\ RunTask(i)

\* C9: saveNewSession for a window that its lookup finds bound to a saved
\* session (in the registry when it is called or when it is woken, or in the
\* store when the registry has no entry) returns null, creates no row and
\* leaves the registry as it was
SaveOnSavedWindowFails ==
    [][\A w \in Windows :
          /\ initialized /\ BoundDurable(w) /\ CallSaveNewSession(w, NameHome)
                => SaveRejected(w)
          /\ \A i \in 1..Len(tasks) :
                /\ BoundDurable(w) /\ WakesSaveOnly(w, i) => SaveRejected(w)
                /\ LookupFindsSaved(w, i) => SaveRejected(w)]_vars

\* saveNewSession was refused for a window that is bound to a saved session
SaveOnSavedWindowSeen ==
    /\ result.op = "saveNewSession" /\ result.val = <<>>
    /\ result.w \in Windows /\ BoundDurable(result.w)
    /\ Len(store) = 1 /\ nextId = 2

\* a tab event of window w whose handler runs at once and calls queueWindowEvent
Enqueues(w) ==
    /\ initialized
    /\ \/ \E u \in Urls : Navigate(w, 1, u, TRUE)
       \/ \E k \in 1..2 : CloseTab(w, k)
       \/ MoveTab(w)
       \/ OpenWindow(w)

\* chrome.windows.get answers handleWindowEvent(w) for a live window that
\* has a session in the registry
HandlerRuns(w, i) ==
    /\ tasks[i].pc = "hwe_window" /\ tasks[i].w = w
    /\ initialized /\ Live(w) /\ w \notin closedWindowIds /\ BoundTo(w) # {}
    /\ RunTask(i)

\* the store answers handleWindowEvent(w)'s lookup with the session of w
HandlerResumes(w, i) ==
    /\ tasks[i].fn = "hwe_window" /\ tasks[i].w = w
    /\ tasks[i].pc = "return" /\ tasks[i].ret = <<"hwe_session">>
    /\ tasks[i].s # <<>>
    /\ RunTask(i)

\* C10: however many calls of queueWindowEvent(w) arrive before the timer
\* fires, one timer callback is pending for w, so handleWindowEvent(w) is
\* invoked once; and when the handler runs, the tabs of the session it finds
\* for w become the tabs the window had when chrome.windows.get answered
BurstCoalesced ==
    [][\A w \in Windows :
          /\ timers'[w] <= 1
          /\ Enqueues(w) => timers'[w] = 1 /\ sessionUpdateTimers'[w]
          /\ \A i \in 1..Len(tasks) :
                /\ HandlerRuns(w, i)
                      => \E j \in 1..Len(sessions') :
                            /\ sessions'[j].windowId = w
                            /\ sessions'[j].tabs = wins[w].tabs
                            /\ sessions'[j].sessionHash = generateSessionHash(wins[w].tabs)
                /\ HandlerResumes(w, i)
                      => \E k \in 1..Len(store') :
                            /\ store'[k].id = tasks[i].s[1].id
                            /\ store'[k].tabs = tasks[i].cw[1].tabs]_vars

\* two events of window 1 (tab 1 navigated and loaded, then the tabs
\* swapped) have been handled by handleWindowEvent: no timer is pending and
\* the session of window 1 has the tabs of the window
BurstHandled ==
    /\ evBudget = 0
    /\ wins[1].status = "open" /\ wins[1].tabs = <<Tab(2, UrlB), Tab(1, UrlB)>>
    /\ tabHistoryUrlMap[1] = UrlB
    /\ tasks = <<>> /\ timers[1] = 0 /\ historyQueue = <<>>
    /\ \E i \in BoundTo(1) : sessions[i].tabs = wins[1].tabs

\* handleWindowRemoved(w, true) calls that went past the duplicate check
PastCheck(w) ==
    {i \in 1..Len(tasks) : tasks[i].fn = "hwr" /\ tasks[i].mark /\ tasks[i].w = w
                              /\ tasks[i].pc # "hwr"}

\* ... and of these the ones whose _updateSessionSync is with the store
UpdateInFlight(w) == {i \in PastCheck(w) : tasks[i].pc = "uss_done"}

\* window-removed(w) is delivered with markAsClosed = true
CloseDelivered(w) == BeginClose(w) \/ FinishClose(w)

\* C11: of the window-removed(W) deliveries with mark_closed = true only one
\* goes past the duplicate check, and it does so in the step that puts W in
\* closed_window_ids, which W never leaves; the store update that clears
\* window_id is issued by that one call only, with window_id cleared, and it
\* is issued when the delivery finds a durable session bound to W; a
\* delivery for a W already closed changes neither registry nor store.
DuplicateCloseSafe ==
    [][\A w \in Windows :
        /\ closedWindowIds \subseteq closedWindowIds'
        /\ Cardinality(PastCheck(w)') <= 1
        /\ PastCheck(w)' # {} => w \in closedWindowIds'
        /\ PastCheck(w) = {} /\ PastCheck(w)' # {}
              => w \notin closedWindowIds
        /\ UpdateInFlight(w) = {} /\ UpdateInFlight(w)' # {}
              => /\ PastCheck(w) # {} \/ w \notin closedWindowIds
                 /\ \A i \in UpdateInFlight(w)' :
                        tasks'[i].u[1].id # 0 /\ tasks'[i].u[1].windowId = 0
        /\ initialized /\ CloseDelivered(w)
              => /\ w \in closedWindowIds'
                 /\ w \in closedWindowIds => UNCHANGED <<sessions, store, tasks>>
                 /\ w \notin closedWindowIds /\ BoundDurable(w)
                       => UpdateInFlight(w)' # {}]_vars

\* both deliveries for window 1 have arrived; the one update is with the store
DuplicateCloseSeen ==
    /\ wins[1].status = "gone"
    /\ 1 \in closedWindowIds
    /\ Cardinality(UpdateInFlight(1)) = 1
    /\ \A i \in 1..Len(tasks) : tasks[i].fn = "hwr" => i \in UpdateInFlight(1)

\* tabs and history of every registry object, and of every row of the store
SessionContent ==
    {<<sessions[i].oid, sessions[i].tabs, sessions[i].history>> : i \in 1..Len(sessions)}

StoreContent ==
    {<<store[i].id, store[i].tabs, store[i].history>> : i \in 1..Len(store)}

\* the initialization barrier opens for one waiting call only: tabs.onRemoved
\* for window w with isWindowClosing = true
WakesCloseOnly(w, i) ==
    /\ tasks[i].pc = "init_tabs" /\ tasks[i].wait = "chrome"
    /\ \E j \in 1..Len(tasks) :
          /\ tasks[j].wait = "init" /\ tasks[j].fn = "htr" /\ tasks[j].flag
          /\ tasks[j].w = w
          /\ \A k \in 1..Len(tasks) : tasks[k].wait = "init" => k = j
    /\ RunTask(i)

\* what tabs.onRemoved with isWindowClosing = true leaves alone; a row that
\* handleWindowRemoved writes carries the tabs and history of its session
WindowClosingFrame(w) ==
    /\ historyQueue' = historyQueue
    /\ timers'[w] <= timers[w]
    /\ sessionUpdateTimers'[w] => sessionUpdateTimers[w]
    /\ \A v \in Windows \ {w} : timers'[v] = timers[v]
    /\ SessionContent' \subseteq SessionContent
    /\ StoreContent' \subseteq StoreContent \cup
           {<<sessions[i].id, sessions[i].tabs, sessions[i].history>> :
               i \in 1..Len(sessions)}

\* C12: tab-removed with isWindowClosing = true does what
\* handle_window_removed(window_id, true) does and nothing else: no entry is
\* appended to history_queue, no window event is scheduled, and
\* tab_history_url_map and the sessions' tabs and history stay as they are.
WindowClosingDelegated ==
    [][\A w \in Windows :
        /\ initialized /\ BeginClose(w)
              => /\ Commit(handleWindowRemoved(Engine, w, TRUE))
                 /\ WindowClosingFrame(w)
                 /\ tabHistoryUrlMap' = tabHistoryUrlMap
        /\ \A i \in 1..Len(tasks) :
              WakesCloseOnly(w, i) => WindowClosingFrame(w) /\ w \in closedWindowIds']_vars

\* the first tab of window 1 was removed with isWindowClosing = true, as the
\* only event so far, and the handler has run
WindowClosingSeen ==
    /\ wins[1].status = "closing" /\ evBudget = MaxEvents - 1
    /\ initialized /\ 1 \in closedWindowIds
    /\ historyQueue = <<>> /\ timers[1] = 0
    /\ \A i \in 1..Len(tasks) : tasks[i].fn # "htr"

----------------------------------------------------------------------------
(* The history functions on their own: one session of window 1, its history *)
(* empty or grown to the limit by earlier tab removals, and calls of        *)
(* addUrlToSessionHistory / removeUrlFromSessionHistory, with the tabs      *)
(* overridden in between as handleWindowEvent does.                         *)

MaxHistCalls == 3   \* calls in a run of the history functions

\* distinct page urls, none of them touched by cleanUrl
HistUrl(k) == <<200 + k>>

\* n tabs removed earlier, newest first
HistTabs(n) == [k \in 1..n |-> Tab(k, HistUrl(k))]

\* a url still in the history, and two that are in no history
HistUrls == {HistUrl(1), HistUrl(HistoryLimit + 1), HistUrl(HistoryLimit + 2)}

HistLens == {0, HistoryLimit - 1, HistoryLimit}

\* urls passed to removeUrlFromSessionHistory: the above, the first with a
\* query string, and a page of the extension
HistRemoveUrls == HistUrls \cup {HistUrl(1) \o QueryChar \o <<120>>, ExtId \o <<47>>}

HistSession(tabs, history) ==
    [oid |-> 1, id |-> 0, windowId |-> 1, sessionHash |-> generateSessionHash(tabs),
     name |-> NoName, tabs |-> tabs, history |-> history,
     windowBounds |-> NoBounds]

HistOpenTabs == {<<Tab(1, u1), Tab(2, u2)>> : u1 \in HistUrls, u2 \in HistUrls}

HistInit ==
    /\ sessions \in {<<HistSession(tabs, HistTabs(n))>> :
                        tabs \in HistOpenTabs, n \in HistLens}
    /\ store = <<>>
    /\ nextId = 1
    /\ tabHistoryUrlMap = [tabId \in TabIds |-> NoUrl]
    /\ closedWindowIds = {}
    /\ sessionUpdateTimers = [w \in Windows |-> FALSE]
    /\ timers = [w \in Windows |-> 0]
    /\ historyQueue = <<>>
    /\ initialized = TRUE
    /\ initializationPromise = FALSE
    /\ tasks = <<>>
    /\ result = NoResult
    /\ wins = [w \in Windows |->
                  IF w = 1 THEN [status |-> "open", tabs |-> sessions[1].tabs,
                                 type |-> "normal"]
                  ELSE NoWindow]
    /\ evBudget = MaxHistCalls
    /\ callBudget = 0

HistFrame ==
    /\ evBudget > 0 /\ evBudget' = evBudget - 1
    /\ UNCHANGED <<store, nextId, tabHistoryUrlMap, closedWindowIds,
                   sessionUpdateTimers, timers, historyQueue, initialized,
                   initializationPromise, tasks, result, callBudget>>

HistAdd(u) ==
    /\ HistFrame
    /\ sessions' = [sessions EXCEPT ![1] = addUrlToSessionHistory(@, u)]
    /\ UNCHANGED wins

HistRemove(u) ==
    /\ HistFrame
    /\ sessions' = [sessions EXCEPT ![1] = removeUrlFromSessionHistory(@, u)]
    /\ UNCHANGED wins

\* session.tabs = curWindow.tabs; session.sessionHash = generateSessionHash(...)
HistOverride(tabs) ==
    /\ HistFrame
    /\ tabs # sessions[1].tabs
    /\ wins' = [wins EXCEPT ![1].tabs = tabs]
    /\ sessions' = [sessions EXCEPT ![1].tabs = tabs,
                                    ![1].sessionHash = generateSessionHash(tabs)]

HistNext ==
    \/ \E u \in HistUrls : HistAdd(u)
    \/ \E u \in HistRemoveUrls : HistRemove(u)
    \/ \E tabs \in HistOpenTabs : HistOverride(tabs)

HistSpec == HistInit /\ [][HistNext]_vars

\* C13: after any sequence of add-url-to-session-history and
\* remove-url-from-session-history calls the history of every session has at
\* most 200 entries.
HistoryBounded ==
    \A i \in 1..Len(sessions) : Len(sessions[i].history) <= HistoryLimit

\* two urls were added to a history that was full, or one short of it: they
\* come first, the history is at the limit and its oldest entries are gone
HistoryTruncated ==
    /\ Len(sessions[1].history) = HistoryLimit
    /\ sessions[1].history[1].url = HistUrl(HistoryLimit + 2)
    /\ sessions[1].history[2].url = HistUrl(HistoryLimit + 1)
    /\ sessions[1].history[HistoryLimit].url = HistUrl(HistoryLimit - 2)

----------------------------------------------------------------------------

\* the cleaned urls of a list of tabs, ignored urls left out
CleanUrls(tabs) == {cleanUrl(tabs[k].url) : k \in 1..Len(tabs)} \ {NoUrl}

\* nothing is under way for window w: no handleWindowEvent in progress, no
\* timer pending and no entry for w in the history queue
WindowSettled(w) ==
    /\ ~InFlight("hwe_window", w)
    /\ w \in Windows => timers[w] = 0
    /\ \A k \in 1..Len(historyQueue) : historyQueue[k].windowId # w

\* C14: whenever no handle_window_event for a session's window is in
\* progress, no cleaned url is both in the session's tabs and in its history.
NoOpenTabInHistory ==
    \A i \in 1..Len(sessions) :
        WindowSettled(sessions[i].windowId)
            => CleanUrls(sessions[i].tabs) \cap CleanUrls(sessions[i].history) = {}

\* C15: for every registry entry and every store row, session_hash is the
\* hash of the session's tabs, after every operation that changes tabs.
HashMatchesTabs ==
    /\ \A i \in 1..Len(sessions) :
          sessions[i].sessionHash = generateSessionHash(sessions[i].tabs)
    /\ \A k \in 1..Len(store) :
          store[k].sessionHash = generateSessionHash(store[k].tabs)

\* updateSessionTabs replaced the tabs of saved session 1 and the row the
\* store returned was copied onto its registry entry
HashFollowsNewTabs ==
    /\ tasks = <<>> /\ callBudget = 0
    /\ \E k \in 1..Len(store) :
          store[k].id = 1 /\ store[k].tabs = <<Tab(3, UrlB)>>
          /\ store[k].sessionHash = generateSessionHash(<<Tab(3, UrlB)>>)
    /\ \E i \in 1..Len(sessions) :
          sessions[i].id = 1 /\ sessions[i].tabs = <<Tab(3, UrlB)>>
          /\ sessions[i].sessionHash # generateSessionHash(Tabs1)

----------------------------------------------------------------------------
(* The naming requests of background.js, against a service that has        *)
(* finished loading: window 1 is open on tabs no saved session has.        *)

MaxNameCalls == 2   \* naming requests in a run

SavedTabs == <<Tab(3, UrlA)>>

Named(id, name) == [Saved(id, 0, SavedTabs) EXCEPT !.name = name]

NameStores ==
    { <<Named(1, NameWork)>>,
      <<Named(1, NameWork), Named(2, NameHome)>> }

NameInit ==
    /\ store \in NameStores
    /\ sessions = [i \in 1..Len(store) |-> Obj(store[i], i)] \o
                  <<[oid |-> Len(store) + 1, id |-> 0, windowId |-> 1,
                     sessionHash |-> generateSessionHash(Tabs1), name |-> NoName,
                     tabs |-> Tabs1, history |-> <<>>,
                     windowBounds |-> NoBounds]>>
    /\ nextId = Len(store) + 1
    /\ tabHistoryUrlMap = [tabId \in TabIds |-> IF tabId = 1 THEN UrlA
                                                ELSE IF tabId = 2 THEN UrlB
                                                ELSE NoUrl]
    /\ closedWindowIds = {}
    /\ sessionUpdateTimers = [w \in Windows |-> FALSE]
    /\ timers = [w \in Windows |-> 0]
    /\ historyQueue = <<>>
    /\ initialized = TRUE
    /\ initializationPromise = FALSE
    /\ tasks = <<>>
    /\ result = NoResult
    /\ wins = [w \in Windows |->
                  IF w = 1 THEN [status |-> "open", tabs |-> Tabs1, type |-> "normal"]
                  ELSE NoWindow]
    /\ evBudget = 0
    /\ callBudget = MaxNameCalls

\* a page sends 'saveNewSession'
RequestSaveNewSession(w, name, deleteOld) ==
    /\ callBudget > 0 /\ callBudget' = callBudget - 1
    /\ Len(tasks) < MaxTasks
    /\ Commit(handleSaveNewSession(Engine,
            [NewTask("hsns") EXCEPT !.w = w, !.name = name, !.flag = deleteOld]))
    /\ UNCHANGED <<wins, evBudget>>

\* a page sends 'updateSessionName'
RequestUpdateSessionName(id, name, deleteOld) ==
    /\ callBudget > 0 /\ callBudget' = callBudget - 1
    /\ Len(tasks) < MaxTasks
    /\ Commit(handleUpdateSessionName(Engine,
            [NewTask("husn") EXCEPT !.id = id, !.name = name, !.flag = deleteOld]))
    /\ UNCHANGED <<wins, evBudget>>

\* a page sends 'restoreFromBackup'
RequestRestoreFromBackup(name, tabs, deleteOld) ==
    /\ callBudget > 0 /\ callBudget' = callBudget - 1
    /\ Len(tasks) < MaxTasks
    /\ Commit(handleRestoreFromBackup(Engine,
            [NewTask("hrfb") EXCEPT !.name = name, !.tabs = tabs, !.flag = deleteOld]))
    /\ UNCHANGED <<wins, evBudget>>

\* a page sends 'importNewSession'
RequestImportNewSession(urlList) ==
    /\ callBudget > 0 /\ callBudget' = callBudget - 1
    /\ Len(tasks) < MaxTasks
    /\ Commit(handleImportNewSession(Engine,
            [NewTask("hins") EXCEPT !.q = urlList, !.i = 1]))
    /\ UNCHANGED <<wins, evBudget>>

NewNames == {NameHome, NameHomeCap}

NameNext ==
    \/ \E name \in NewNames, deleteOld \in BOOLEAN :
          RequestSaveNewSession(1, name, deleteOld)
    \/ \E id \in 1..2, name \in NewNames, deleteOld \in BOOLEAN :
          RequestUpdateSessionName(id, name, deleteOld)
    \/ \E deleteOld \in BOOLEAN :
          RequestRestoreFromBackup(NameHomeCap, <<Tab(3, UrlB)>>, deleteOld)
    \/ RequestImportNewSession(<<UrlB>>)
    \/ DbDone
    \/ ChromeDone

NameSpec == NameInit /\ [][NameNext]_vars

\* C16: no two rows of the store have names that are equal ignoring case,
\* whatever naming requests have been made and however far they have got
UniqueNames ==
    \A i, j \in 1..Len(store) :
        i # j => ToLowerCase(store[i].name) # ToLowerCase(store[j].name)

\* the store answers task i, which then runs from label pc
Answered(i, pc) == FirstWaiting("db") = i /\ tasks[i].pc = pc /\ DbDone

\* fetchSessionByName found a session other than the one being renamed
OtherHasName(i) == tasks[i].s # <<>> /\ tasks[i].s[1].id # tasks[i].id

\* the calls of handleDeleteSession(id) and updateSessionName(id, name)
\* among the tasks ts that wait for their first store read
Deleting(ts, id) ==
    {k \in 1..Len(ts) : ts[k].fn = "del" /\ ts[k].pc = "del_fetched" /\ ts[k].id = id}

Renaming(ts, id, name) ==
    {k \in 1..Len(ts) : /\ ts[k].fn = "husn" /\ ts[k].pc = "usn_fetched"
                        /\ ts[k].id = id /\ ts[k].name = name}

MatchingRows(name) ==
    {k \in 1..Len(store) : ToLowerCase(store[k].name) = ToLowerCase(name)}

\* one request was made, it has run to its end and it reported a session
RenamedAlone ==
    /\ callBudget = MaxNameCalls - 1 /\ tasks = <<>>
    /\ result.op = "updateSessionName" /\ result.val # <<>>

\* such a request leaves the name it stored to the row it renamed, and to no other
RenamedAloneKeepsName ==
    RenamedAlone => MatchingRows(result.val[1].name) = {RowIndexById(store, result.w)}

\* C17: when update_session_name(id, new_name, delete_old) finds that another
\* session has new_name ignoring case, then with delete_old = false it reports
\* failure, changes no session and starts no rename or deletion; with
\* delete_old = true it starts the deletion of the other session and the
\* rename, the deletion removes the other row, the rename stores new_name in
\* row id, and a request that ran alone leaves new_name to row id only
RenameConflict ==
    [][/\ \A i \in 1..Len(tasks) :
            Answered(i, "husn_named") /\ OtherHasName(i) =>
                IF tasks[i].flag
                THEN /\ Deleting(tasks', tasks[i].s[1].id) # {}
                     /\ Renaming(tasks', tasks[i].id, tasks[i].name) # {}
                     /\ store' = store
                ELSE /\ result' = [op |-> "updateSessionName", w |-> tasks[i].id,
                                   val |-> <<>>]
                     /\ store' = store /\ sessions' = sessions
                     /\ tasks' = RemoveAt(tasks, i)
       /\ \A i \in 1..Len(tasks) :
            Answered(i, "del_fetched") /\ tasks[i].s # <<>> =>
                RowIndexById(store', tasks[i].id) = 0
       /\ \A i \in 1..Len(tasks) :
            Answered(i, "usn_fetched") /\ tasks[i].s # <<>> =>
                /\ RowIndexById(store', tasks[i].id) # 0
                /\ store'[RowIndexById(store', tasks[i].id)].name = tasks[i].name
       /\ RenamedAloneKeepsName']_vars

\* the rename of session 1 to "H" has taken the name from session 2
RenameTookName ==
    /\ RenamedAlone
    /\ Len(store) = 1 /\ store[1].id = 1 /\ store[1].name = NameHomeCap
    /\ \A i \in 1..Len(sessions) : sessions[i].id # 2

\* C18: when update_session_name(id, new_name, delete_old) finds that the
\* session with new_name ignoring case is session id itself, it starts the
\* rename and no deletion of session id, whatever delete_old is
SameSessionRenamed ==
    [][\A i \in 1..Len(tasks) :
          /\ Answered(i, "husn_named")
          /\ tasks[i].s # <<>> /\ tasks[i].s[1].id = tasks[i].id
          => /\ Renaming(tasks', tasks[i].id, tasks[i].name) # {}
             /\ Cardinality(Deleting(tasks', tasks[i].id))
                    <= Cardinality(Deleting(tasks, tasks[i].id))]_vars

----------------------------------------------------------------------------
(* matchSessionToWindow called for a saved session that is closed, as      *)
(* handleLoadSession and the start-up match call it, each call after the   *)
(* one before it has settled.  Both windows are open.                      *)

MaxMatchCalls == 3  \* calls of matchSessionToWindow in a run

OpenWindow1 == [status |-> "open", tabs |-> Tabs1, type |-> "normal"]

OpenWindow2 == [status |-> "open", tabs |-> <<Tab(3, UrlB)>>, type |-> "normal"]

\* the registry the start-up leaves for these rows and windows: the rows,
\* then a temporary session for each window no row is bound to
Temporary(oid, w, tabs) ==
    [oid |-> oid, id |-> 0, windowId |-> w, sessionHash |-> generateSessionHash(tabs),
     name |-> NoName, tabs |-> tabs, history |-> <<>>, windowBounds |-> NoBounds]

MatchStores ==
    { <<Named(1, NameWork), Named(2, NameHome), Named(3, NamePlay)>>,
      <<[Named(1, NameWork) EXCEPT !.windowId = 1], Named(2, NameHome),
        Named(3, NamePlay)>> }

MatchInit ==
    /\ store \in MatchStores
    /\ sessions = [i \in 1..Len(store) |-> Obj(store[i], i)] \o
                  (IF store[1].windowId = 1 THEN <<>>
                   ELSE <<Temporary(4, 1, Tabs1)>>) \o
                  <<Temporary(5, 2, <<Tab(3, UrlB)>>)>>
    /\ nextId = Len(store) + 1
    /\ tabHistoryUrlMap = [tabId \in TabIds |-> IF tabId = 1 THEN UrlA ELSE UrlB]
    /\ closedWindowIds = {}
    /\ sessionUpdateTimers = [w \in Windows |-> FALSE]
    /\ timers = [w \in Windows |-> 0]
    /\ historyQueue = <<>>
    /\ initialized = TRUE
    /\ initializationPromise = FALSE
    /\ tasks = <<>>
    /\ result = NoResult
    /\ wins = [w \in Windows |-> IF w = 1 THEN OpenWindow1 ELSE OpenWindow2]
    /\ evBudget = 0
    /\ callBudget = MaxMatchCalls

\* matchSessionToWindow(session, curWindow) on the row just read for id
CallMatchSessionToWindow(id, w) ==
    /\ callBudget > 0 /\ callBudget' = callBudget - 1
    /\ tasks = <<>>
    /\ fetchSessionById(Engine, id) # <<>>
    /\ fetchSessionById(Engine, id)[1].windowId = 0
    /\ Commit(matchSessionToWindow(Engine, fetchSessionById(Engine, id)[1],
                                   Populated(w)))
    /\ UNCHANGED <<wins, evBudget>>

MatchNext ==
    \/ \E id \in 1..3, w \in Windows : CallMatchSessionToWindow(id, w)
    \/ DbDone

MatchSpec == MatchInit /\ [][MatchNext]_vars

\* every saved session of the registry has its row, with the same window
WindowIdPersisted ==
    \A k \in 1..Len(sessions) :
        sessions[k].id # 0 =>
            /\ RowIndexById(store, sessions[k].id) # 0
            /\ store[RowIndexById(store, sessions[k].id)].windowId = sessions[k].windowId

\* C19: when a bind of session S' to window W that follows an earlier bind
\* to W has settled, S' is the one registry entry and the one row with
\* window_id = W; the session bound before is still stored if it was saved,
\* with window_id absent in the registry and in its row, and is gone from
\* the registry if it was temporary
RebindMovesWindow ==
    [][\A i \in 1..Len(tasks) :
          /\ Answered(i, "uss_done")
          /\ tasks[i].fn = "m_start" /\ tasks[i].ret = <<"m_done">>
          => /\ \A k \in 1..Len(sessions') :
                   sessions'[k].windowId = tasks[i].w <=> sessions'[k].id = tasks[i].s[1].id
             /\ \A k \in 1..Len(store') :
                   store'[k].windowId = tasks[i].w <=> store'[k].id = tasks[i].s[1].id
             /\ Len(store') = Len(store)
             /\ \A k \in 1..Len(store) : FindIndex(Engine', LAMBDA e : e.id = store[k].id) # 0
             /\ WindowIdPersisted']_vars

\* session 1 was bound to window 1, then session 2 was
ReboundSeen ==
    /\ tasks = <<>> /\ callBudget = MaxMatchCalls - 2
    /\ sessions[1].id = 1 /\ sessions[1].windowId = 0 /\ store[1].windowId = 0
    /\ sessions[2].id = 2 /\ sessions[2].windowId = 1 /\ store[2].windowId = 1
    /\ \A k \in 1..Len(sessions) : sessions[k].windowId = 1 => k = 2

----------------------------------------------------------------------------
(* A platform whose chrome.windows.get can reject although the window is   *)
(* there, against a service that has finished loading.                     *)

MaxGetEvents == 2   \* platform events in a run

GetStores == { <<>>, <<Saved(1, 1, Tabs1)>> }

GetInit ==
    /\ store \in GetStores
    /\ sessions = [i \in 1..Len(store) |-> Obj(store[i], i)] \o
                  (IF store = <<>> THEN <<Temporary(1, 1, Tabs1)>> ELSE <<>>) \o
                  <<Temporary(2, 2, <<Tab(3, UrlB)>>)>>
    /\ nextId = Len(store) + 1
    /\ tabHistoryUrlMap = [tabId \in TabIds |-> IF tabId = 1 THEN UrlA ELSE UrlB]
    /\ closedWindowIds = {}
    /\ sessionUpdateTimers = [w \in Windows |-> FALSE]
    /\ timers = [w \in Windows |-> 0]
    /\ historyQueue = <<>>
    /\ initialized = TRUE
    /\ initializationPromise = FALSE
    /\ tasks = <<>>
    /\ result = NoResult
    /\ wins = [w \in Windows |-> IF w = 1 THEN OpenWindow1 ELSE OpenWindow2]
    /\ evBudget = MaxGetEvents
    /\ callBudget = 0

\* the browser rejects the oldest outstanding request, a chrome.windows.get
WindowGetFails ==
    /\ FirstWaiting("chrome") # 0
    /\ tasks[FirstWaiting("chrome")].pc = "hwe_window"
    /\ Commit(handleWindowEventCatch(
            [Engine EXCEPT !.tasks = RemoveAt(@, FirstWaiting("chrome"))],
            tasks[FirstWaiting("chrome")]))
    /\ UNCHANGED <<wins, evBudget, callBudget>>

GetNext ==
    \/ \E w \in Windows, u \in Urls, c \in BOOLEAN : Navigate(w, 1, u, c)
    \/ \E w \in Windows, k \in 1..2 : CloseTab(w, k)
    \/ \E w \in Windows : TimerFire(w)
    \/ DbDone
    \/ ChromeDone
    \/ WindowGetFails

GetSpec == GetInit /\ [][GetNext]_vars

\* the registry entry a lookup by window finds, 0 if none
FirstBound(w) == FindIndex(Engine, LAMBDA e : e.windowId = w)

\* C20: when chrome.windows.get rejects in handle_window_event(W), W is not
\* added to closed_window_ids and the session bound to W is unbound with its
\* tabs, hash and history as they were: a saved session has window_id
\* cleared in the registry and the update of its row is issued, a temporary
\* session leaves the registry and the store is not written
FailedGetUnbinds ==
    [][\A w \in Windows :
          /\ WindowGetFails /\ tasks[FirstWaiting("chrome")].w = w
          /\ w \notin closedWindowIds /\ FirstBound(w) # 0
          => /\ closedWindowIds' = closedWindowIds
             /\ IF sessions[FirstBound(w)].id # 0
                THEN /\ sessions' = [sessions EXCEPT ![FirstBound(w)].windowId = 0]
                     /\ store' = StorePut(store,
                            [Row(sessions[FirstBound(w)]) EXCEPT !.windowId = 0])
                ELSE /\ sessions' = RemoveAt(sessions, FirstBound(w))
                     /\ store' = store]_vars

\* the get for window 1 failed: its saved session is unbound, the update of
\* the row is on its way and the window is not taken for closed
FailedGetSeen ==
    /\ wins[1].status = "open" /\ 1 \notin closedWindowIds
    /\ store # <<>> /\ store[1].windowId = 0
    /\ sessions[1].id = 1 /\ sessions[1].windowId = 0 /\ sessions[1].tabs = Tabs1
    /\ \E i \in 1..Len(tasks) :
          /\ tasks[i].fn = "hwr" /\ ~tasks[i].mark
          /\ tasks[i].pc = "uss_done" /\ tasks[i].w = 1

----------------------------------------------------------------------------
(* Window bounds: windows are moved and closed against a service that has  *)
(* finished loading.  Window 1 has a saved or a temporary session, window  *)
(* 2 a temporary one unless it has just been opened.                       *)

MaxBoundsEvents == 3    \* platform events in a run

BoundsA == [left |-> 0, top |-> 0, width |-> 8, height |-> 6]

BoundsB == [left |-> 1, top |-> 0, width |-> 8, height |-> 6]

BoundsInit ==
    /\ store \in GetStores \cup { <<[Saved(1, 1, Tabs1) EXCEPT !.windowBounds = BoundsA]>> }
    /\ sessions \in
          { [i \in 1..Len(store) |-> Obj(store[i], i)] \o
            (IF store = <<>> THEN <<Temporary(1, 1, Tabs1)>> ELSE <<>>) \o second :
                second \in {<<>>, <<Temporary(2, 2, <<Tab(3, UrlB)>>)>>} }
    /\ nextId = Len(store) + 1
    /\ tabHistoryUrlMap = [tabId \in TabIds |-> IF tabId = 1 THEN UrlA ELSE UrlB]
    /\ closedWindowIds = {}
    /\ sessionUpdateTimers = [w \in Windows |-> FALSE]
    /\ timers = [w \in Windows |-> 0]
    /\ historyQueue = <<>>
    /\ initialized = TRUE
    /\ initializationPromise = FALSE
    /\ tasks = <<>>
    /\ result = NoResult
    /\ wins = [w \in Windows |-> IF w = 1 THEN OpenWindow1 ELSE OpenWindow2]
    /\ evBudget = MaxBoundsEvents
    /\ callBudget = 0

\* window w is moved or resized: captureWindowBounds(w, bounds)
CaptureBounds(w, bounds) ==
    /\ Spend
    /\ Exists(w)
    /\ Commit(captureWindowBounds(Engine, w, bounds))
    /\ UNCHANGED <<wins, callBudget>>

BoundsTimers(ts, w) == {i \in 1..Len(ts) : ts[i].wait = "timer" /\ ts[i].w = w}

\* the 1 s timer of captureWindowBounds for window w fires
BoundsTimerFire(w) ==
    /\ BoundsTimers(tasks, w) # {}
    /\ RunTask(CHOOSE i \in BoundsTimers(tasks, w) : TRUE)
    /\ UNCHANGED <<wins, evBudget, callBudget>>

BoundsNext ==
    \/ \E w \in Windows, bounds \in {BoundsA, BoundsB} : CaptureBounds(w, bounds)
    \/ \E w \in Windows : BoundsTimerFire(w)
    \/ \E w \in Windows : BeginClose(w)
    \/ \E w \in Windows : FinishClose(w)
    \/ DbDone

BoundsSpec == BoundsInit /\ [][BoundsNext]_vars

\* C21: a window-removed(W) delivery to a W not yet closed puts W in the
\* closed set and otherwise: with a saved session bound to W it clears that
\* entry's window_id only (name, tabs, history and window_bounds stay, the
\* entry stays) and issues the update of its row, which then holds what the
\* entry holds; with a temporary session bound to W it removes that
\* entry and writes nothing to the store; with no session bound to W it
\* changes neither registry nor store, nor when its look in the store ends
WindowRemovedFrame ==
    [][/\ \A w \in Windows :
          initialized /\ CloseDelivered(w) /\ w \notin closedWindowIds
          => /\ closedWindowIds' = closedWindowIds \cup {w}
             /\ IF FirstBound(w) = 0
                THEN sessions' = sessions /\ store' = store
                ELSE IF sessions[FirstBound(w)].id = 0
                THEN sessions' = RemoveAt(sessions, FirstBound(w)) /\ store' = store
                ELSE /\ sessions' = [sessions EXCEPT ![FirstBound(w)].windowId = 0]
                     /\ store' = StorePut(store,
                            [Row(sessions[FirstBound(w)]) EXCEPT !.windowId = 0])
                     /\ \E i \in 1..Len(tasks') :
                           /\ tasks'[i].fn = "hwr" /\ tasks'[i].pc = "uss_done"
                           /\ tasks'[i].u[1].id = sessions[FirstBound(w)].id
       /\ \A i \in 1..Len(tasks) :
             Answered(i, "return") /\ tasks[i].fn = "hwr" /\ tasks[i].s = <<>>
             => sessions' = sessions /\ store' = store
                /\ closedWindowIds' = closedWindowIds]_vars

\* window 1 closed with its saved session holding bounds: the entry is still
\* there, unbound, bounds kept, and the row says the same
WindowRemovedSeen ==
    /\ 1 \in closedWindowIds /\ store # <<>>
    /\ sessions[1].id = 1 /\ sessions[1].windowId = 0
    /\ sessions[1].windowBounds = BoundsB /\ sessions[1].tabs = Tabs1
    /\ store[1] = Row(sessions[1])

\* C22: once a window is marked closed, no window-event timer and no
\* bounds-write timer is pending for it
NoTimerAfterClose ==
    \A w \in closedWindowIds :
        /\ timers[w] = 0
        /\ ~sessionUpdateTimers[w]
        /\ BoundsTimers(tasks, w) = {}

\* C23: captureWindowBounds(W, b) on a W bound to a saved session sets that
\* entry's window_bounds to b at once, writes nothing yet and leaves exactly
\* one bounds timer pending for W, so a burst of captures ends in one
\* store update, issued when that timer fires and carrying what the entry
\* then holds (the last bounds); on a W bound to a temporary session or to
\* none it changes nothing and schedules no write
BoundsDebounced ==
    [][/\ \A w \in Windows, b \in {BoundsA, BoundsB} :
          CaptureBounds(w, b)
          => IF FirstBound(w) # 0 /\ sessions[FirstBound(w)].id # 0
             THEN /\ sessions' = [sessions EXCEPT ![FirstBound(w)].windowBounds = b]
                  /\ store' = store
                  /\ Cardinality(BoundsTimers(tasks', w)) = 1
                  /\ \A i \in BoundsTimers(tasks', w) :
                        tasks'[i].u[1].oid = sessions[FirstBound(w)].oid
             ELSE /\ sessions' = sessions /\ store' = store
                  /\ BoundsTimers(tasks', w) = {}
       /\ \A i \in 1..Len(tasks) :
             Answered(i, "return") /\ tasks[i].fn = "cwb" /\ tasks[i].s = <<>>
             => /\ sessions' = sessions /\ store' = store
                /\ BoundsTimers(tasks', tasks[i].w) = {}
       /\ \A w \in Windows :
             BoundsTimerFire(w)
             => /\ FirstBound(w) # 0
                /\ sessions' = sessions
                /\ store' = StorePut(store, Row(sessions[FirstBound(w)]))
                /\ BoundsTimers(tasks', w) = {}]_vars

\* two events in, window 1's saved session holds the bounds captured last,
\* the row still holds the earlier ones and one timer is pending
BoundsPending ==
    /\ store # <<>> /\ store[1].windowBounds = BoundsA
    /\ sessions[1].id = 1 /\ sessions[1].windowBounds = BoundsB
    /\ Cardinality(BoundsTimers(tasks, 1)) = 1
    /\ evBudget = MaxBoundsEvents - 2

\* C24: every registry entry without an id (a temporary session) is bound
\* to a window
TemporaryHasWindow ==
    \A i \in 1..Len(sessions) : sessions[i].id = 0 => sessions[i].windowId # 0

\* C25: saveNewSession on a window bound to a temporary session fills that
\* entry in place, and when the store has created the row it gives that
\* same entry the row's id: the registry keeps its length, the entry its
\* place, the other entries stay as they are, the entry carries the given
\* name and tabs and the hash of the tabs, and it is the only entry of the
\* window; when the window got its session while saveNewSession looked in
\* the store, that entry is taken and none is added
SavePromotesEntry ==
    [][/\ \A w \in Windows, name \in {NameWork, NameHome} :
          /\ initialized /\ CallSaveNewSession(w, name)
          /\ FirstBound(w) # 0 /\ sessions[FirstBound(w)].id = 0
          => /\ sessions' = [sessions EXCEPT ![FirstBound(w)] =
                    [@ EXCEPT !.name = name, !.tabs = wins[w].tabs,
                              !.sessionHash = generateSessionHash(wins[w].tabs)]]
             /\ \E i \in 1..Len(tasks') :
                   /\ tasks'[i].pc = "sns_created"
                   /\ tasks'[i].s[1].oid = sessions[FirstBound(w)].oid
       /\ \A i \in 1..Len(tasks) :
             /\ Answered(i, "sns_created") /\ tasks[i].cw # <<>>
             /\ IndexByOid(Engine, tasks[i].s[1].oid) # 0
             => /\ Len(sessions') = Len(sessions)
                /\ \A j \in 1..Len(sessions) :
                      IF sessions[j].oid = tasks[i].s[1].oid
                      THEN /\ sessions'[j].oid = sessions[j].oid
                           /\ sessions'[j].id = tasks[i].u[1].id
                           /\ sessions'[j].name = tasks[i].name
                           /\ sessions'[j].tabs = tasks[i].tabs
                           /\ sessions'[j].sessionHash =
                                  generateSessionHash(tasks[i].tabs)
                           /\ sessions'[j].windowId = tasks[i].w
                           /\ sessions'[j].id # 0
                           /\ \A r \in 1..Len(sessions) :
                                 r # j => sessions[r].id # sessions'[j].id
                      ELSE /\ sessions'[j] = sessions[j]
                           /\ sessions'[j].windowId # tasks[i].w
       /\ \A i \in 1..Len(tasks) :
             /\ Answered(i, "return") /\ tasks[i].fn = "sns" /\ tasks[i].s = <<>>
             /\ FirstBound(tasks[i].w) # 0
             => /\ Len(sessions') = Len(sessions)
                /\ sessions'[FirstBound(tasks[i].w)].name = tasks[i].name
                /\ sessions'[FirstBound(tasks[i].w)].oid =
                       sessions[FirstBound(tasks[i].w)].oid]_vars

----------------------------------------------------------------------------
(* _addSessionSafely applied to registries built by earlier additions. *)

MaxAddCalls == 3    \* calls of _addSessionSafely in a run

AddIds == 0..2    \* the ids a new session may carry, 0 for none

AddInit ==
    /\ sessions \in { <<>>, <<Obj(Saved(1, 1, Tabs1), 1)>>, <<Temporary(1, 1, Tabs1)>>,
                       <<Obj(Saved(2, 0, Tabs1), 1)>> }
    /\ store = SelectSeq([i \in 1..Len(sessions) |-> Row(sessions[i])],
                         LAMBDA r : r.id # 0)
    /\ nextId = 3
    /\ tabHistoryUrlMap = [tabId \in TabIds |-> NoUrl]
    /\ closedWindowIds = {}
    /\ sessionUpdateTimers = [w \in Windows |-> FALSE]
    /\ timers = [w \in Windows |-> 0]
    /\ historyQueue = <<>>
    /\ initialized = TRUE
    /\ initializationPromise = FALSE
    /\ tasks = <<>>
    /\ result = NoResult
    /\ wins = [w \in Windows |-> IF w = 1 THEN OpenWindow1 ELSE OpenWindow2]
    /\ evBudget = 0
    /\ callBudget = MaxAddCalls

\* the session object handed to _addSessionSafely
AddedSession(id, windowId) ==
    [Obj(Saved(id, windowId, Tabs1), FreshOid(UsedOids(Engine), 1)) EXCEPT
        !.name = NoName]

\* this._addSessionSafely(newSession), its return value kept in result
CallAddSessionSafely(id, windowId) ==
    /\ callBudget > 0 /\ callBudget' = callBudget - 1
    /\ Commit([addSessionSafely(Engine, AddedSession(id, windowId)).st EXCEPT
                  !.result = [op |-> "addSessionSafely", w |-> windowId,
                              val |-> <<addSessionSafely(Engine,
                                          AddedSession(id, windowId)).added>>]])
    /\ UNCHANGED <<wins, evBudget>>

AddNext == \E id \in AddIds, windowId \in {0} \cup Windows : CallAddSessionSafely(id, windowId)

AddSpec == AddInit /\ [][AddNext]_vars

\* C26: _addSessionSafely(session) returns false and leaves the registry as
\* it is exactly when an entry has the session's present id or the
\* session's present window_id; otherwise it appends the session and
\* returns true, so a session with neither id nor window_id is always added
AddSafelyContract ==
    [][\A id \in AddIds, windowId \in {0} \cup Windows :
          CallAddSessionSafely(id, windowId)
          => IF \E k \in 1..Len(sessions) :
                   \/ id # 0 /\ sessions[k].id = id
                   \/ windowId # 0 /\ sessions[k].windowId = windowId
             THEN sessions' = sessions /\ result'.val = <<FALSE>>
             ELSE /\ sessions' = Append(sessions, AddedSession(id, windowId))
                  /\ result'.val = <<TRUE>>]_vars

\* a session was refused after two sessions with neither id nor window_id
\* had been added
AddRefusedSeen ==
    /\ result.op = "addSessionSafely" /\ result.val = <<FALSE>>
    /\ \E i, j \in 1..Len(sessions) :
          /\ i # j
          /\ sessions[i].id = 0 /\ sessions[i].windowId = 0
          /\ sessions[j].id = 0 /\ sessions[j].windowId = 0

----------------------------------------------------------------------------
(* _updateSessionSync called on sessions of the registry and on copies of
   them, while sessions are deleted. *)

MaxUpdCalls == 3    \* calls of _updateSessionSync and deleteSession in a run

UpdInit ==
    /\ store = <<Named(1, NameWork), Named(2, NameHome)>>
    /\ sessions = <<Obj(store[1], 1), Obj(store[2], 2), Temporary(3, 1, Tabs1)>>
    /\ nextId = 3
    /\ tabHistoryUrlMap = [tabId \in TabIds |-> IF tabId = 1 THEN UrlA ELSE UrlB]
    /\ closedWindowIds = {}
    /\ sessionUpdateTimers = [w \in Windows |-> FALSE]
    /\ timers = [w \in Windows |-> 0]
    /\ historyQueue = <<>>
    /\ initialized = TRUE
    /\ initializationPromise = FALSE
    /\ tasks = <<>>
    /\ result = NoResult
    /\ wins = [w \in Windows |-> IF w = 1 THEN OpenWindow1 ELSE NoWindow]
    /\ evBudget = 0
    /\ callBudget = MaxUpdCalls

\* a caller sets the name of registry entry k, or of a copy of it read from
\* the store, and calls _updateSessionSync with it; throws: the store's
\* transaction will fail
CallUpdateSessionSync(k, copy, name, throws) ==
    /\ callBudget > 0 /\ callBudget' = callBudget - 1
    /\ Len(tasks) < MaxTasks
    /\ k \in 1..Len(sessions)
    /\ Commit(Resume(IF copy THEN Engine
                     ELSE WriteObj(Engine, [sessions[k] EXCEPT !.name = name]),
                     [NewTask(IF throws THEN "uss_throws" ELSE "uss_call") EXCEPT
                         !.u = <<[sessions[k] EXCEPT
                                    !.name = name,
                                    !.oid = IF copy THEN 0 ELSE @]>>]))
    /\ UNCHANGED <<wins, evBudget>>

UpdNext ==
    \/ \E k \in 1..3, copy \in BOOLEAN, name \in {NameWork, NamePlay}, throws \in BOOLEAN :
          CallUpdateSessionSync(k, copy, name, throws)
    \/ \E id \in 1..2 : CallDeleteSession(id)
    \/ DbDone

UpdSpec == UpdInit /\ [][UpdNext]_vars

\* C27: when the store has answered an _updateSessionSync(session) and the
\* registry holds an entry with the session's id, that entry takes the
\* session's fields where it is (same place, same length, every other
\* entry as before) and is what the call returns; when no entry has that
\* id the call returns the session as the store returned it and the
\* registry stays as it is; when the store returns nothing (a session
\* without id) or fails, the call returns null, nothing is written and the
\* registry stays as the caller left it
UpdateSyncContract ==
    [][/\ \A i \in 1..Len(tasks) :
             Answered(i, "uss_done") /\ tasks[i].fn = "uss_call"
             => IF \E k \in 1..Len(sessions) : sessions[k].id = tasks[i].u[1].id
                THEN /\ Len(sessions') = Len(sessions)
                     /\ \E k \in 1..Len(sessions) :
                           /\ sessions[k].id = tasks[i].u[1].id
                           /\ \A j \in 1..Len(sessions) :
                                 j # k => sessions'[j] = sessions[j]
                           /\ Row(sessions'[k]) = Row(Cur(Engine, tasks[i].u))
                           /\ sessions'[k].oid = sessions[k].oid
                           /\ result'.val = <<sessions'[k]>>
                ELSE /\ sessions' = sessions
                     /\ Len(result'.val) = 1
                     /\ Row(result'.val[1]) = Row(tasks[i].u[1])
       /\ \A i \in 1..Len(tasks) :
             Answered(i, "uss_failed")
             => /\ sessions' = sessions /\ store' = store
                /\ result'.op = "updateSessionSync" /\ result'.val = <<>>
       /\ \A k \in 1..Len(sessions), copy \in BOOLEAN,
             name \in {NameWork, NamePlay}, throws \in BOOLEAN :
             CallUpdateSessionSync(k, copy, name, throws)
             => /\ store' = IF sessions[k].id = 0 \/ throws THEN store
                            ELSE StorePut(store, [Row(sessions[k]) EXCEPT !.name = name])
                /\ sessions' = IF copy THEN sessions
                               ELSE [sessions EXCEPT ![k].name = name]
                /\ sessions[k].id = 0
                   => result'.op = "updateSessionSync" /\ result'.val = <<>>]_vars

\* an update made on a copy has reached the registry entry of its id, which
\* is what the call returned
UpdatePatchedSeen ==
    /\ result.op = "updateSessionSync" /\ result.val # <<>>
    /\ \E k \in 1..Len(sessions) :
          /\ result.val = <<sessions[k]>>
          /\ sessions[k].name = NamePlay /\ sessions[k].id = 2
          /\ RowIndexById(store, 2) # 0
          /\ store[RowIndexById(store, 2)] = Row(sessions[k])

----------------------------------------------------------------------------
(* requestAllSpaces on stores whose rows carry lastAccess. *)

MaxSortCalls == 2    \* requestAllSpaces requests in a run

MaxSortRows == 3     \* rows in the store

AccessTimes == 1..3  \* lastAccess, as a time in days

\* row id of the store: closed or open in its own window, with or without
\* tabs, last accessed at lastAccess
Accessed(id, open, tabs, lastAccess) ==
    Saved(id, IF open THEN id ELSE 0, tabs) @@ [lastAccess |-> lastAccess]

SortInit ==
    /\ store \in UNION {
          { [i \in 1..n |-> Accessed(i, f[i].open, f[i].tabs, f[i].lastAccess)] :
              f \in [1..n -> [open : BOOLEAN, tabs : {<<>>, Tabs1},
                              lastAccess : AccessTimes]] } :
          n \in 0..MaxSortRows }
    /\ sessions = [i \in 1..Len(store) |-> Obj(store[i], i)]
    /\ nextId = MaxSortRows + 1
    /\ tabHistoryUrlMap = [tabId \in TabIds |-> NoUrl]
    /\ closedWindowIds = {}
    /\ sessionUpdateTimers = [w \in Windows |-> FALSE]
    /\ timers = [w \in Windows |-> 0]
    /\ historyQueue = <<>>
    /\ initialized = TRUE
    /\ initializationPromise = FALSE
    /\ tasks = <<>>
    /\ result = NoResult
    /\ wins = [w \in Windows |-> NoWindow]
    /\ evBudget = 0
    /\ callBudget = MaxSortCalls

\* the popup or the spaces page asks for all spaces
CallRequestAllSpaces ==
    /\ callBudget > 0 /\ callBudget' = callBudget - 1
    /\ Len(tasks) < MaxTasks
    /\ Commit(Park(Engine, [NewTask("ras") EXCEPT !.rows = store], "db", "ras_fetched"))
    /\ UNCHANGED <<wins, evBudget>>

SortNext == CallRequestAllSpaces \/ DbDone

SortSpec == SortInit /\ [][SortNext]_vars

----------------------------------------------------------------------------
(* generateSessionHash applied to the tabs of a window. *)

MaxHashCalls == 3    \* changes of the window's tabs in a run

ExampleUrl ==        \* "https://example.com"
    <<104,116,116,112,115,58,47,47,101,120,97,109,112,108,101,46,99,111,109>>

QueryUrl == <<97,63,98,35,99>>                          \* "a?b#c"

HighUrl == <<65535,65535,65535,65535,65535,40000>>      \* six high code units

HashUrls == {NoUrl, UrlA, UrlB, ExampleUrl, QueryUrl, HighUrl}

HashTabs ==
    {<<>>} \cup { <<Tab(1, u)>> : u \in HashUrls }
           \cup { <<Tab(1, u), Tab(2, v)>> : u, v \in HashUrls \ {ExampleUrl} }

HashInit ==
    /\ sessions \in { <<Temporary(1, 1, tabs)>> : tabs \in HashTabs }
    /\ store = <<>>
    /\ nextId = 1
    /\ tabHistoryUrlMap = [tabId \in TabIds |-> NoUrl]
    /\ closedWindowIds = {}
    /\ sessionUpdateTimers = [w \in Windows |-> FALSE]
    /\ timers = [w \in Windows |-> 0]
    /\ historyQueue = <<>>
    /\ initialized = TRUE
    /\ initializationPromise = FALSE
    /\ tasks = <<>>
    /\ result = NoResult
    /\ wins = [w \in Windows |->
                  IF w = 1 THEN [status |-> "open", tabs |-> sessions[1].tabs,
                                 type |-> "normal"]
                  ELSE NoWindow]
    /\ evBudget = MaxHashCalls
    /\ callBudget = 0

HashNext == \E tabs \in HashTabs : HistOverride(tabs)

HashSpec == HashInit /\ [][HashNext]_vars

MaxInt32 == 2147483647

\* x + y wrapped to signed 32 bits, for x and y in that range
WrapAdd(x, y) ==
    IF x >= 0 /\ y >= 0 /\ x > MaxInt32 - y
    THEN (x - MaxInt32 - 1) + (y - MaxInt32 - 1)
    ELSE IF x < 0 /\ y < 0 /\ x < (0 - MaxInt32 - 1) - y
    THEN (x + MaxInt32 + 1) + (y + MaxInt32 + 1)
    ELSE x + y

\* h * 31 + c wrapped to signed 32 bits: h * 31 as 16h + 8h + 4h + 2h + h
WrapStep(h, c) ==
    LET h2 == WrapAdd(h, h)
        h4 == WrapAdd(h2, h2)
        h8 == WrapAdd(h4, h4)
        h16 == WrapAdd(h8, h8)
    IN WrapAdd(WrapAdd(WrapAdd(WrapAdd(WrapAdd(h16, h8), h4), h2), h), c)

\* the fold, one step fully evaluated before the next is taken
RECURSIVE WrapFold(_, _)
WrapFold(h, text) ==
    IF text = <<>> THEN h
    ELSE LET next == WrapStep(h, Head(text))
         IN IF next >= 0 \/ next < 0 THEN WrapFold(next, Tail(text)) ELSE 0

\* C29: the session hash of a list of tabs is the absolute value of the
\* fold h <- h * 31 + c, wrapped to signed 32 bits after every step, over
\* the code units of the cleaned URLs put together; it is 0 when they are
\* empty, never negative, and 632849614 for the one tab https://example.com
HashIsWrappedFold ==
    \A i \in 1..Len(sessions) :
        /\ sessions[i].sessionHash = Abs(WrapFold(0, ConcatUrls(sessions[i].tabs)))
        /\ sessions[i].sessionHash >= 0
        /\ ConcatUrls(sessions[i].tabs) = <<>> => sessions[i].sessionHash = 0
        /\ sessions[i].tabs = <<Tab(1, ExampleUrl)>>
           => sessions[i].sessionHash = 632849614

\* the window shows https://example.com alone and its session has the hash
\* of the regression test
HashExampleSeen ==
    /\ evBudget < MaxHashCalls
    /\ sessions[1].tabs = <<Tab(1, ExampleUrl)>>
    /\ sessions[1].sessionHash = 632849614

----------------------------------------------------------------------------
(* Tab events on windows with temporary sessions while a saved session is
   closed. *)

\* a saved session that is not open, with the one tab "a"
ClosedSession(id) ==
    [Saved(id, 0, <<Tab(3, UrlA)>>) EXCEPT !.name = NameHome]

RematchStores == { <<ClosedSession(1)>>, <<Saved(1, 1, Tabs1), ClosedSession(2)>> }

\* the registry the start-up leaves: no window shows the tabs of the closed
\* session, so each window without a row has a temporary session
RematchInit ==
    /\ store \in RematchStores
    /\ sessions = [i \in 1..Len(store) |-> Obj(store[i], i)] \o
                  (IF Len(store) = 1 THEN <<Temporary(2, 1, Tabs1)>> ELSE <<>>) \o
                  <<Temporary(3, 2, <<Tab(3, UrlB)>>)>>
    /\ nextId = Len(store) + 1
    /\ tabHistoryUrlMap = [tabId \in TabIds |-> IF tabId = 1 THEN UrlA ELSE UrlB]
    /\ closedWindowIds = {}
    /\ sessionUpdateTimers = [w \in Windows |-> FALSE]
    /\ timers = [w \in Windows |-> 0]
    /\ historyQueue = <<>>
    /\ initialized = TRUE
    /\ initializationPromise = FALSE
    /\ tasks = <<>>
    /\ result = NoResult
    /\ wins = [w \in Windows |-> IF w = 1 THEN OpenWindow1 ELSE OpenWindow2]
    /\ evBudget = MaxGetEvents
    /\ callBudget = 0

RematchSpec == RematchInit /\ [][GetNext]_vars

\* C30: once the window events are handled, no open window is left with a
\* temporary session whose hash, the hash of the window's tabs, is the hash
\* of a saved session that is bound to no window: handleWindowEvent has
\* rematched the window to that session
TemporaryRematched ==
    Quiet
    => \A i, j \in 1..Len(sessions) :
          ~ /\ sessions[i].id = 0 /\ sessions[i].windowId \in Windows
            /\ wins[sessions[i].windowId].status = "open"
            /\ sessions[i].sessionHash =
                   generateSessionHash(wins[sessions[i].windowId].tabs)
            /\ sessions[j].id # 0 /\ sessions[j].windowId = 0
            /\ sessions[j].sessionHash = sessions[i].sessionHash

----------------------------------------------------------------------------
(* The history queue across windows *)

\* C31: a handleWindowEvent(w) that finds a session for w removes from
\* historyQueue exactly the entries whose windowId is w and leaves the
\* entries of other windows in the queue, in their order
QueueDrainedByWindow ==
    [][\A w \in Windows : \A i \in 1..Len(tasks) :
          HandlerRuns(w, i) \/ HandlerResumes(w, i)
              => historyQueue' =
                    SelectSeq(historyQueue, LAMBDA h : h.windowId # w)]_vars

----------------------------------------------------------------------------
(* The start-up with two windows that show the same page: both are open    *)
(* when background.js calls initialiseSpaces, and one session is saved     *)
(* with the tabs they show.                                                *)

MaxTwinEvents == 1  \* platform events in a run

TwinTabs(tabId) == <<Tab(tabId, UrlA)>>

\* the saved session is closed, or the store says it is open in window 1
TwinStores == { <<Saved(1, 0, TwinTabs(1))>>, <<Saved(1, 1, TwinTabs(1))>> }

TwinInit ==
    /\ sessions = <<>>
    /\ store \in TwinStores
    /\ nextId = Len(store) + 1
    /\ tabHistoryUrlMap = [tabId \in TabIds |-> NoUrl]
    /\ closedWindowIds = {}
    /\ sessionUpdateTimers = [w \in Windows |-> FALSE]
    /\ timers = [w \in Windows |-> 0]
    /\ historyQueue = <<>>
    /\ initialized = FALSE
    /\ initializationPromise = FALSE
    /\ tasks = <<[NewTask("init_version") EXCEPT !.wait = "chrome"]>>
    /\ result = NoResult
    /\ wins = [w \in Windows |->
                  [status |-> "open", tabs |-> TwinTabs(IF w = 1 THEN 1 ELSE 3),
                   type |-> "normal"]]
    /\ evBudget = MaxTwinEvents
    /\ callBudget = 0

TwinNext ==
    \/ \E w \in Windows, u \in Urls, c \in BOOLEAN : Navigate(w, 1, u, c)
    \/ \E w \in Windows : BeginClose(w)
    \/ \E w \in Windows : FinishClose(w)
    \/ \E w \in Windows : TimerFire(w)
    \/ DbDone
    \/ ChromeDone

TwinSpec == TwinInit /\ [][TwinNext]_vars

\* the calls of matchSessionToWindow that have not returned
Matching == {i \in 1..Len(tasks) : tasks[i].fn = "m_start"}

\* C32: a saved session that _ensureWindowHasSession matches to a window by
\* hash is bound to no window when the bind takes effect: no session is
\* being matched to two windows at once, and while the update that binds
\* it is with the store, its row names the window of that bind
HashBindExclusive ==
    \A i \in Matching :
        /\ \A j \in Matching :
              tasks[i].s[1].id = tasks[j].s[1].id => tasks[i].w = tasks[j].w
        /\ tasks[i].pc = "uss_done" /\ tasks[i].ret = <<"m_done">>
              => \A k \in 1..Len(store) :
                    store[k].id = tasks[i].s[1].id => store[k].windowId = tasks[i].w

----------------------------------------------------------------------------
(* The browser restarts: the worker evaluates background.js, which starts  *)
(* initialiseSpaces, and the browser then sends runtime.onStartup.  The    *)
(* store holds one saved session that was open when the browser stopped;   *)
(* its windowId is from before the restart and its tabs are not the tabs   *)
(* of the window that now has that id.                                     *)

MaxStartupEvents == 1   \* platform events in a run

StartupStores == { <<Saved(1, w, <<Tab(1, UrlB)>>)>> : w \in Windows }

StartupInit ==
    /\ sessions = <<>>
    /\ store \in StartupStores
    /\ nextId = Len(store) + 1
    /\ tabHistoryUrlMap = [tabId \in TabIds |-> NoUrl]
    /\ closedWindowIds = {}
    /\ sessionUpdateTimers = [w \in Windows |-> FALSE]
    /\ timers = [w \in Windows |-> 0]
    /\ historyQueue = <<>>
    /\ initialized = FALSE
    /\ initializationPromise = FALSE
    /\ tasks = <<[NewTask("init_version") EXCEPT !.wait = "chrome"]>>
    /\ result = NoResult
    /\ wins = [w \in Windows |->
                  IF w = 1 THEN [status |-> "open", tabs |-> Tabs1, type |-> "normal"]
                  ELSE NoWindow]
    /\ evBudget = MaxStartupEvents
    /\ callBudget = 1

\* runtime.onStartup is delivered
Startup ==
    /\ callBudget > 0 /\ callBudget' = callBudget - 1
    /\ Commit(onStartup(Engine))
    /\ UNCHANGED <<wins, evBudget>>

StartupNext ==
    \/ Startup
    \/ \E w \in Windows, u \in Urls, c \in BOOLEAN : Navigate(w, 1, u, c)
    \/ \E w \in Windows : TimerFire(w)
    \/ DbDone
    \/ ChromeDone

StartupSpec == StartupInit /\ [][StartupNext]_vars

\* a call of matchSessionToWindow has just issued the update that binds the
\* session of this row to this window
BoundByMatch(ts, row) ==
    \E i \in 1..Len(ts) :
        /\ ts[i].fn = "m_start" /\ ts[i].pc = "uss_done" /\ ts[i].ret = <<"m_done">>
        /\ ts[i].s[1].id = row.id /\ ts[i].w = row.windowId

\* C33: once the restart path has cleared the window_id of a row, the row
\* gets a window_id only from a bind by hash (matchSessionToWindow): no
\* window_id from before the restart comes back into the store, where the
\* initialization that follows would take its window for bound
RestartClearsWindowIds ==
    [][\A k \in 1..Len(store) :
          store[k].windowId = 0 /\ k <= Len(store') /\ store'[k].windowId # 0
              => BoundByMatch(tasks', store'[k])]_vars

----------------------------------------------------------------------------
(* A tabs.onRemoved event that the browser delivers a second time, against *)
(* a service that has finished loading with both windows open.             *)

\* tabs.onRemoved arrives again for a tab that is gone from window w
RedeliverTabRemoved(w, tabId) ==
    /\ Spend
    /\ wins[w].status = "open" /\ OpenTabUrl(tabId) = <<>>
    /\ Deliver([NoEvent EXCEPT !.ev = "removed", !.w = w, !.tabId = tabId])
    /\ UNCHANGED <<wins, callBudget>>

DupNext ==
    \/ \E k \in 1..2 : CloseTab(1, k)
    \/ \E tabId \in TabIds : RedeliverTabRemoved(1, tabId)
    \/ MoveTab(1)
    \/ \E w \in Windows : TimerFire(w)
    \/ DbDone
    \/ ChromeDone

DupSpec == GetInit /\ [][DupNext]_vars

\* the tab of Tabs1 that window 1 no longer shows
ClosedTabs == SelectSeq(Tabs1, LAMBDA tab : OpenTabUrl(tab.id) = <<>>)

\* C35: a second delivery of tab-removed for a tab of window 1 finds no url
\* in tabHistoryUrlMap: the entry it queues has no url and it changes
\* neither registry nor store; and when everything queued is handled, the
\* session of window 1 has the tabs of the window and the closed tab in its
\* history once, as after one delivery
DuplicateRemovalAbsorbed ==
    /\ [][\A tabId \in TabIds :
             RedeliverTabRemoved(1, tabId)
                 => /\ historyQueue' = Append(historyQueue,
                           [url |-> NoUrl, windowId |-> 1, action |-> "add"])
                    /\ UNCHANGED <<sessions, store, tabHistoryUrlMap>>]_vars
    /\ [](Quiet => /\ historyQueue = <<>>
                   /\ \A i \in BoundTo(1) :
                         /\ sessions[i].tabs = wins[1].tabs
                         /\ sessions[i].history = ClosedTabs
                         /\ sessions[i].id # 0 =>
                               /\ store[1].tabs = wins[1].tabs
                               /\ store[1].history = ClosedTabs)

\* a tab of window 1 was closed, the event came twice and all is handled
DuplicateRemovalSeen ==
    /\ evBudget = 0 /\ Quiet
    /\ Len(wins[1].tabs) = 1
    /\ \A i \in BoundTo(1) : Len(sessions[i].history) = 1
    /\ BoundTo(1) # {}

----------------------------------------------------------------------------
(* The start-up with an internal window: window 2 is a popup, or a normal  *)
(* window whose one tab shows a page of the extension.  Tabs navigate      *)
(* between a web page and that page.                                       *)

MaxInternalEvents == 2  \* platform events in a run

ExtPage == ExtId \o <<47>>

InternalWindows ==
    { [status |-> "open", tabs |-> <<Tab(3, UrlA)>>, type |-> "popup"],
      [status |-> "open", tabs |-> <<Tab(3, ExtPage)>>, type |-> "normal"] }

\* nothing saved, or a saved session, closed, with the tab of the popup
InternalStores == { <<>>, <<Saved(1, 0, <<Tab(3, UrlA)>>)>> }

InternalInit ==
    /\ sessions = <<>>
    /\ store \in InternalStores
    /\ nextId = Len(store) + 1
    /\ tabHistoryUrlMap = [tabId \in TabIds |-> NoUrl]
    /\ closedWindowIds = {}
    /\ sessionUpdateTimers = [w \in Windows |-> FALSE]
    /\ timers = [w \in Windows |-> 0]
    /\ historyQueue = <<>>
    /\ initialized = FALSE
    /\ initializationPromise = FALSE
    /\ tasks = <<[NewTask("init_version") EXCEPT !.wait = "chrome"]>>
    /\ result = NoResult
    /\ wins \in {[w \in Windows |->
                     IF w = 1 THEN [status |-> "open", tabs |-> Tabs1, type |-> "normal"]
                     ELSE second] : second \in InternalWindows}
    /\ evBudget = MaxInternalEvents
    /\ callBudget = 0

InternalNext ==
    \/ \E w \in Windows, u \in {UrlA, ExtPage}, c \in BOOLEAN : Navigate(w, 1, u, c)
    \/ \E w \in Windows : TimerFire(w)
    \/ DbDone
    \/ ChromeDone

InternalSpec == InternalInit /\ [][InternalNext]_vars

Contains(s, pat) ==
    \E i \in 1..(Len(s) - Len(pat) + 1) : SubSeq(s, i, i + Len(pat) - 1) = pat

\* the window the call of task i was given to look at, if it is past its screen
Screened(i) ==
    /\ tasks[i].fn \in {"init_version", "hwe_window"}
    /\ tasks[i].cw # <<>> /\ tasks[i].pc # "init_tabs"

----------------------------------------------------------------------------
(* The queue under fair scheduling: both windows are open with a session,  *)
(* tabs and windows are closed, and every timer that is set fires, every   *)
(* request the store or the browser holds is answered, and a window that   *)
(* is closing goes.                                                        *)

DrainNext ==
    \/ \E w \in Windows, k \in 1..2 : CloseTab(w, k)
    \/ \E w \in Windows : MoveTab(w)
    \/ \E w \in Windows : BeginClose(w)
    \/ \E w \in Windows : FinishClose(w)
    \/ \E w \in Windows : TimerFire(w)
    \/ DbDone
    \/ ChromeDone

\* ChromeDone is enabled exactly when a request to the browser is
\* outstanding, and its weak fairness is written with that condition
DrainFairness ==
    /\ \A w \in Windows : WF_vars(TimerFire(w)) /\ WF_vars(FinishClose(w))
    /\ WF_vars(DbDone)
    /\ []<>(FirstWaiting("chrome") = 0) \/ []<><<ChromeDone>>_vars

DrainSpec == GetInit /\ [][DrainNext]_vars /\ DrainFairness

Queued(w) == \E k \in 1..Len(historyQueue) : historyQueue[k].windowId = w

\* C37: an entry of window w in historyQueue is eventually removed from it
QueueEventuallyDrained == \A w \in Windows : Queued(w) ~> ~Queued(w)

----------------------------------------------------------------------------
(* The store out of order: window 1 is open with its saved session, and    *)
(* the store may reject every update issued in a macrotask.                *)

OutageInit ==
    /\ GetInit
    /\ store # <<>>

\* the user closes window w; outage: the store rejects the handler's updates
CloseDuringOutage(w, outage) ==
    /\ Spend
    /\ wins[w].status = "open" /\ Len(wins[w].tabs) >= 1
    /\ wins' = [wins EXCEPT ![w].status = "closing", ![w].tabs = Tail(@)]
    /\ Commit(Listener([Engine EXCEPT !.storeFails = outage],
                       [NoEvent EXCEPT !.ev = "removed", !.w = w,
                                       !.tabId = wins[w].tabs[1].id, !.flag = TRUE]))
    /\ UNCHANGED callBudget

\* the store or the browser answers its oldest outstanding request, and the
\* store rejects the updates issued while the caller goes on
AnswerDuringOutage(kind) ==
    /\ FirstWaiting(kind) # 0
    /\ Commit(Resume([Engine EXCEPT !.tasks = RemoveAt(@, FirstWaiting(kind)),
                                    !.storeFails = TRUE],
                     tasks[FirstWaiting(kind)]))
    /\ UNCHANGED <<wins, evBudget, callBudget>>

OutageNext ==
    \/ \E w \in Windows, outage \in BOOLEAN : CloseDuringOutage(w, outage)
    \/ \E w \in Windows : FinishClose(w)
    \/ \E w \in Windows, u \in Urls : Navigate(w, 1, u, TRUE)
    \/ \E w \in Windows : TimerFire(w)
    \/ DbDone
    \/ ChromeDone
    \/ \E kind \in {"db", "chrome"} : AnswerDuringOutage(kind)

OutageSpec == OutageInit /\ [][OutageNext]_vars

\* C38: whenever no operation is in flight, the row of every saved session
\* of the registry carries the windowId of the registry entry
RegistryMatchesStore ==
    Quiet => \A k \in 1..Len(sessions), j \in 1..Len(store) :
                sessions[k].id # 0 /\ store[j].id = sessions[k].id
                    => store[j].windowId = sessions[k].windowId

----------------------------------------------------------------------------
(* The start-up that fails: the browser may reject chrome.windows.getAll   *)

\* the browser rejects the oldest outstanding request, a chrome.windows.getAll
WindowsGetAllFails ==
    /\ FirstWaiting("chrome") # 0
    /\ tasks[FirstWaiting("chrome")].pc = "init_windows"
    /\ Commit(initialiseSpacesCatch(
            [Engine EXCEPT !.tasks = RemoveAt(@, FirstWaiting("chrome"))],
            tasks[FirstWaiting("chrome")]))
    /\ UNCHANGED <<wins, evBudget, callBudget>>

FailedInitNext ==
    \/ \E w \in Windows, u \in Urls, c \in BOOLEAN : Navigate(w, 1, u, c)
    \/ \E w \in Windows, k \in 1..2 : CloseTab(w, k)
    \/ \E w \in Windows : TimerFire(w)
    \/ DbDone
    \/ ChromeDone
    \/ WindowsGetAllFails

FailedInitSpec == Init /\ [][FailedInitNext]_vars

Waiting == {i \in 1..Len(tasks) : tasks[i].wait = "init"}

\* C39: a run of initialiseSpaces that failed does not leave the engine
\* marked initialized: when the run started by ensureInitialized has failed
\* and no other run has finished since, the step that ends that call of
\* ensureInitialized leaves initialized false and releases no caller
FailedInitNotDone ==
    [][\A i \in 1..Len(tasks) :
          (tasks[i].pc = "init_tabs_failed" /\ ~initialized /\ RunTask(i))
              => (~initialized' /\ Waiting' # {})]_vars

----------------------------------------------------------------------------
(* saveNewSession while the store may reject the create: both windows are  *)
(* open with a session, and a caller saves the tabs of a window, or tabs   *)
(* of no window (windowId false).                                          *)

MaxCreateCalls == 2  \* calls of saveNewSession in a run

CreateInit ==
    /\ store \in GetStores
    /\ sessions = [i \in 1..Len(store) |-> Obj(store[i], i)] \o
                  (IF store = <<>> THEN <<Temporary(1, 1, Tabs1)>> ELSE <<>>) \o
                  <<Temporary(2, 2, <<Tab(3, UrlB)>>)>>
    /\ nextId = Len(store) + 1
    /\ tabHistoryUrlMap = [tabId \in TabIds |-> IF tabId = 1 THEN UrlA ELSE UrlB]
    /\ closedWindowIds = {}
    /\ sessionUpdateTimers = [w \in Windows |-> FALSE]
    /\ timers = [w \in Windows |-> 0]
    /\ historyQueue = <<>>
    /\ initialized = TRUE
    /\ initializationPromise = FALSE
    /\ tasks = <<>>
    /\ result = NoResult
    /\ wins = [w \in Windows |-> IF w = 1 THEN OpenWindow1 ELSE OpenWindow2]
    /\ evBudget = 0
    /\ callBudget = MaxCreateCalls

\* saveNewSession(name, tabs, w); outage: the store rejects the create
CallSaveDuringOutage(w, name, outage) ==
    /\ callBudget > 0 /\ callBudget' = callBudget - 1
    /\ Len(tasks) < MaxTasks
    /\ Commit(ensureInitialized([Engine EXCEPT !.storeFails = outage],
            [NewTask("sns") EXCEPT !.w = w, !.name = name,
                                   !.tabs = IF w = 0 THEN <<Tab(1, UrlB)>>
                                            ELSE wins[w].tabs]))
    /\ UNCHANGED <<wins, evBudget>>

CreateNext ==
    \/ \E w \in {0} \cup Windows, name \in {NameHome, NamePlay}, outage \in BOOLEAN :
          CallSaveDuringOutage(w, name, outage)
    \/ DbDone

CreateSpec == CreateInit /\ [][CreateNext]_vars

CreateRejected(ts) == \E i \in 1..Len(ts) : ts[i].pc = "sns_failed"

\* C40: a saveNewSession whose create the store rejects leaves the registry
\* as it was before the call and returns null
FailedCreateLeavesRegistry ==
    /\ [][\A w \in {0} \cup Windows, name \in {NameHome, NamePlay} :
             (~CreateRejected(tasks) /\ CallSaveDuringOutage(w, name, TRUE)
                 /\ CreateRejected(tasks'))
                 => sessions' = sessions]_vars
    /\ [][\A i \in 1..Len(tasks) :
             (tasks[i].pc = "sns_failed" /\ RunTask(i))
                 => (sessions' = sessions
                     /\ result' = [op |-> "saveNewSession", w |-> tasks[i].w,
                                   val |-> <<>>])]_vars

====
